---- MODULE Spec2Model ----
(***************************************************************************)
(* Model of lovelace-echarts-raw-card: the bounded LRU cache, the change   *)
(* detection over entity fingerprints, the history/statistics fetch engine *)
(* with its TTL cache, and the card's resolution protocol (run ids,        *)
(* throttle, loading flag), the token resolver and the number transforms.  *)
(*                                                                         *)
(* Each subsystem has its own specification (SpecLru, SpecFp, SpecFetch,   *)
(* SpecCard, SpecResolve, SpecTransform, ...); each leaves the variables   *)
(* of the other subsystems at their initial values.                        *)
(***************************************************************************)
EXTENDS Integers, Sequences, FiniteSets, TLC

VARIABLES
  lruMap,      \* LruMap._map: entries [k, v] in Map iteration (insertion) order
  lruMax,      \* LruMap._maxSize
  lruOp,       \* the last LruMap call and what it returned
  touchLog,    \* keys by last touch (a set, or a get that finds the key) since clear (observer)
  lruDeleted,  \* a delete removed a key since the last clear (observer)
  fpHass,      \* change detection: the store handed to the check
  fpWatched,   \* change detection: the watched-entity set
  fpLast,      \* change detection: the fingerprint map (entity id -> fingerprint)
  fpOut,       \* change detection: result of the last shouldUpdateForHassChange call
  fCache,      \* fetch engine: the cache handed to fetchHistory / fetchStatistics (key -> entry)
  fCalls,      \* fetch engine: the calls of the engine and where each stands
  fNow,        \* fetch engine: the clock, in ticks of half a second
  fQueries,    \* fetch engine: number of hass.callApi / hass.callWS requests issued
  fWatched,    \* fetch engine: the watched-entity set handed to the calls
  card,        \* the card element: its fields, its suspended resolutions, its clock
  rsIn,        \* resolver: the tree handed to deepResolveTokensAsync
  rsHass,      \* resolver: the store handed to it
  rsStats,     \* resolver: a fetchStatistics callback is supplied
  rsOut,       \* resolver: the resolved tree and the watched set, once the call is over
  tfIn,        \* transforms: the value and the token handed to applyNumberTransforms
  tfOut,       \* transforms: what the call returned
  dsIn,        \* downsample: the points, maxPoints and the method handed to it
  dsOut,       \* downsample: what the call returned
  hpIn,        \* history point: the arguments of coerceHistoryPointNumber
  hpOut,       \* history point: what the call returned
  dcIn,        \* history decode: one per-entity array of the response and the generator
  dcPos,       \* history decode: index of the next snapshot of the array
  dcOut,       \* history decode: perEntity, the points pushed so far
  bdIn,        \* bulk extraction: the $data spec and the store handed to the resolver
  bdOut        \* bulk extraction: the rows built, sorted and sliced, and the result

lruVars == <<lruMap, lruMax, lruOp, touchLog, lruDeleted>>
fpVars == <<fpHass, fpWatched, fpLast, fpOut>>
fetchVars == <<fCache, fCalls, fNow, fQueries, fWatched>>
cardVars == <<card>>
resolveVars == <<rsIn, rsHass, rsStats, rsOut>>
transformVars == <<tfIn, tfOut>>
downsampleVars == <<dsIn, dsOut>>
pointVars == <<hpIn, hpOut>>
decodeVars == <<dcIn, dcPos, dcOut>>
dataVars == <<bdIn, bdOut>>

vars ==
  <<lruVars, fpVars, fetchVars, cardVars, resolveVars, transformVars, downsampleVars,
    pointVars, decodeVars, dataVars>>

(***************************************************************************)
(* Shared helpers                                                          *)
(***************************************************************************)

\* JS `undefined`
Undefined == "undefined"

\* the sequence s without its elements that fail Keep
RECURSIVE SelectKeys(_, _)
SelectKeys(s, drop) ==
  IF s = <<>> THEN <<>>
  ELSE IF Head(s) \in drop THEN SelectKeys(Tail(s), drop)
       ELSE <<Head(s)>> \o SelectKeys(Tail(s), drop)

\* the elements of a sequence
Range(s) == {s[i] : i \in 1..Len(s)}

\* the last n elements of s (all of s when it is shorter)
LastN(s, n) == IF Len(s) <= n THEN s ELSE SubSeq(s, Len(s) - n + 1, Len(s))

(***************************************************************************)
(* Bounded cache: src/src/history/lru-map.ts                               *)
(***************************************************************************)

\* bounds of the LRU exploration
MaxCap == 2
LruKeys == {"a", "b", "c"}
LruVals == {"v1", "v2", Undefined}

\* --- the JS Map the class wraps -------------------------------------------

MapKeys(m) == {m[i].k : i \in 1..Len(m)}

MapHas(m, key) == key \in MapKeys(m)

\* Map.prototype.get: the value, or undefined for an absent key
MapGet(m, key) ==
  IF MapHas(m, key) THEN (CHOOSE e \in Range(m) : e.k = key).v ELSE Undefined

\* Map.prototype.delete: order of the remaining entries is kept
RECURSIVE MapDelete(_, _)
MapDelete(m, key) ==
  IF m = <<>> THEN <<>>
  ELSE IF Head(m).k = key THEN Tail(m)
       ELSE <<Head(m)>> \o MapDelete(Tail(m), key)

\* Map.prototype.set: an existing key keeps its position, a new key goes last
MapSet(m, key, value) ==
  IF MapHas(m, key)
  THEN [i \in 1..Len(m) |-> IF m[i].k = key THEN [k |-> key, v |-> value] ELSE m[i]]
  ELSE Append(m, [k |-> key, v |-> value])

\* --- LruMap ----------------------------------------------------------------

\* get(key): the map after the call
LruGetMap(m, key) ==
  LET value == MapGet(m, key) IN
  IF value = Undefined THEN m
  ELSE MapSet(MapDelete(m, key), key, value)

\* get(key): what the call returns
LruGetRet(m, key) == MapGet(m, key)

\* mutant: nothing is ever evicted
EvictOldestNever(m, max) == m

\* the eviction loop of set: drop the first entry while over capacity
RECURSIVE EvictOldest(_, _)
EvictOldest(m, max) ==
  IF Len(m) > max THEN EvictOldest(MapDelete(m, Head(m).k), max) ELSE m

\* set(key, value): the map after the call
LruSetMap(m, max, key, value) ==
  LET m1 == IF MapHas(m, key) THEN MapDelete(m, key) ELSE m
      m2 == MapSet(m1, key, value)
  IN EvictOldest(m2, max)

\* --- observers of the call sequence ---------------------------------------

\* key moved to the most recent end of a log of distinct keys
Touch(log, key) == Append(SelectKeys(log, {key}), key)

LruGet(key) ==
  /\ lruMap' = LruGetMap(lruMap, key)
  /\ lruOp' = [op |-> "get", k |-> key, v |-> Undefined,
               ret |-> LruGetRet(lruMap, key), had |-> MapHas(lruMap, key)]
  /\ touchLog' = IF MapHas(lruMap, key) THEN Touch(touchLog, key) ELSE touchLog
  /\ UNCHANGED <<lruMax, lruDeleted>>

LruSet(key, value) ==
  /\ lruMap' = LruSetMap(lruMap, lruMax, key, value)
  /\ lruOp' = [op |-> "set", k |-> key, v |-> value,
               ret |-> "this", had |-> MapHas(lruMap, key)]
  /\ touchLog' = Touch(touchLog, key)
  /\ UNCHANGED <<lruMax, lruDeleted>>

LruHas(key) ==
  /\ lruOp' = [op |-> "has", k |-> key, v |-> Undefined,
               ret |-> IF MapHas(lruMap, key) THEN "true" ELSE "false",
               had |-> MapHas(lruMap, key)]
  /\ UNCHANGED <<lruMap, lruMax, touchLog, lruDeleted>>

LruDelete(key) ==
  /\ lruMap' = MapDelete(lruMap, key)
  /\ lruOp' = [op |-> "delete", k |-> key, v |-> Undefined,
               ret |-> IF MapHas(lruMap, key) THEN "true" ELSE "false",
               had |-> MapHas(lruMap, key)]
  /\ lruDeleted' = (lruDeleted \/ MapHas(lruMap, key))
  /\ UNCHANGED <<lruMax, touchLog>>

LruClear ==
  /\ lruMap' = <<>>
  /\ lruOp' = [op |-> "clear", k |-> Undefined, v |-> Undefined,
               ret |-> Undefined, had |-> FALSE]
  /\ touchLog' = <<>>
  /\ lruDeleted' = FALSE
  /\ UNCHANGED lruMax

NoLruOp == [op |-> "new", k |-> Undefined, v |-> Undefined, ret |-> Undefined, had |-> FALSE]

\* new LruMap(maxSize): maxSize < 1 throws, so a constructed map has maxSize >= 1
InitLruVars ==
  /\ lruMap = <<>>
  /\ lruMax \in 1..MaxCap
  /\ lruOp = NoLruOp
  /\ touchLog = <<>>
  /\ lruDeleted = FALSE

IdleLruVars ==
  /\ lruMap = <<>>
  /\ lruMax = 1
  /\ lruOp = NoLruOp
  /\ touchLog = <<>>
  /\ lruDeleted = FALSE

(***************************************************************************)
(* Change detection: src/unnamed/part_006 (tokens/fingerprints)            *)
(***************************************************************************)

Entities == {"e1", "e2"}

\* the entity objects of the store explored: state string and last_updated marker
EntityStates == [state : {"on", "off"}, last_updated : {"t1", "t2"}]

\* hass.states: a record of entity objects keyed by entity id
StoreStates == UNION {[D -> EntityStates] : D \in SUBSET Entities}

\* `hass` undefined (or without states)
NoHass == [defined |-> FALSE, states |-> <<>>, dark |-> FALSE]

Hass(states, dark) == [defined |-> TRUE, states |-> states, dark |-> dark]

\* `${st.state}|${st.last_updated}`, or "missing" when hass.states[entityId] is absent
EntityFp(hass, entityId) ==
  IF entityId \in DOMAIN hass.states
  THEN hass.states[entityId].state \o "|" \o hass.states[entityId].last_updated
  ELSE "missing"

\* Map.get on the fingerprint map
FpGet(last, entityId) == IF entityId \in DOMAIN last THEN last[entityId] ELSE Undefined

\* mutant: an entity without a recorded fingerprint counts as unchanged
ShouldUpdateIgnoringUnrecorded(hass, watched, last) ==
  IF watched = {} THEN FALSE
  ELSE IF ~hass.defined THEN FALSE
  ELSE \E entityId \in watched :
         /\ entityId \in DOMAIN last
         /\ last[entityId] # EntityFp(hass, entityId)

\* shouldUpdateForHassChange(hass, watchedEntities, lastFingerprints)
ShouldUpdateForHassChange(hass, watched, last) ==
  IF watched = {} THEN FALSE
  ELSE IF ~hass.defined THEN FALSE
  ELSE \E entityId \in watched :
         LET fp == EntityFp(hass, entityId)
             prev == FpGet(last, entityId)
         IN prev # fp

\* mutant: the snapshot records the state without the last_updated stamp
SnapshotFingerprintsOfState(hass, watched, last) ==
  IF ~hass.defined THEN last
  ELSE [entityId \in (DOMAIN last) \cup watched |->
          IF entityId \notin watched THEN last[entityId]
          ELSE IF entityId \in DOMAIN hass.states THEN hass.states[entityId].state
          ELSE "missing"]

\* snapshotFingerprints(hass, watchedEntities, lastFingerprints): the map after the call
SnapshotFingerprints(hass, watched, last) ==
  IF ~hass.defined THEN last
  ELSE [entityId \in (DOMAIN last) \cup watched |->
          IF entityId \in watched THEN EntityFp(hass, entityId) ELSE last[entityId]]

\* the fingerprints a map can hold for the entities explored
FpValues == {"missing"} \cup {st.state \o "|" \o st.last_updated : st \in EntityStates}
FpMaps == UNION {[D -> FpValues] : D \in SUBSET Entities}

NoFpOut == [done |-> FALSE, val |-> FALSE]

\* a call of shouldUpdateForHassChange on the current inputs
FpCheck ==
  /\ fpOut' = [done |-> TRUE, val |-> ShouldUpdateForHassChange(fpHass, fpWatched, fpLast)]
  /\ UNCHANGED <<fpHass, fpWatched, fpLast>>

\* a call of snapshotFingerprints on the current inputs
FpSnapshot ==
  /\ fpLast' = SnapshotFingerprints(fpHass, fpWatched, fpLast)
  /\ fpOut' = NoFpOut
  /\ UNCHANGED <<fpHass, fpWatched>>

\* the store replaces, adds or removes one entity
FpStoreChange ==
  /\ fpHass.defined
  /\ \E states \in StoreStates :
       /\ \E entityId \in Entities :
            \A other \in Entities \ {entityId} :
              /\ (other \in DOMAIN states) = (other \in DOMAIN fpHass.states)
              /\ other \in DOMAIN states => states[other] = fpHass.states[other]
       /\ states # fpHass.states
       /\ fpHass' = Hass(states, fpHass.dark)
  /\ fpOut' = NoFpOut
  /\ UNCHANGED <<fpWatched, fpLast>>

InitFpVars ==
  /\ fpHass \in {NoHass} \cup {Hass(states, FALSE) : states \in StoreStates}
  /\ fpWatched \in SUBSET Entities
  /\ fpLast \in FpMaps
  /\ fpOut = NoFpOut

IdleFpVars ==
  /\ fpHass = NoHass
  /\ fpWatched = {}
  /\ fpLast = <<>>
  /\ fpOut = NoFpOut

(***************************************************************************)
(* Fetch engine: src/src/history/fetch.ts, src/src/statistics/fetch.ts,    *)
(* src/src/tokens/entity.ts (parseTime)                                    *)
(***************************************************************************)

\* bound of the clock of the fetch exploration, in ticks
MaxTick == 3

\* Date.now() at a tick
TickMs(tick) == tick * 500

\* an absent (null / undefined) string-valued field
Null == "null"

\* optional numbers
NoNum == [has |-> FALSE, n |-> 0]
Num(n) == [has |-> TRUE, n |-> n]

\* JS numbers that may be non-finite (NaN, Infinity)
Fin(n) == [fin |-> TRUE, n |-> n]
NaN == [fin |-> FALSE, n |-> 0]

\* `start` / `end` as configured: absent, an epoch number, a non-finite number,
\* a date string Date.parse accepts (n: its epoch ms), a string it rejects
TimeNull == [k |-> "null", n |-> 0]
TimeNum(n) == [k |-> "num", n |-> n]
TimeNonFinite == [k |-> "nan", n |-> 0]
TimeStr(n) == [k |-> "str", n |-> n]
TimeBadStr == [k |-> "badstr", n |-> 0]

\* s joined with sep (Array.prototype.join)
RECURSIVE JoinStr(_, _)
JoinStr(s, sep) ==
  IF s = <<>> THEN ""
  ELSE IF Len(s) = 1 THEN s[1]
       ELSE s[1] \o sep \o JoinStr(Tail(s), sep)

\* parseTime(t, fallbackMs)
ParseTime(t, fallbackMs) ==
  CASE t.k = "null" -> fallbackMs
    [] t.k = "num" -> Fin(t.n)
    [] t.k = "nan" -> NaN
    [] t.k = "str" -> Fin(t.n)
    [] t.k = "badstr" -> fallbackMs

\* a - b on JS numbers
Minus(a, b) == IF a.fin THEN Fin(a.n - b) ELSE NaN

\* Math.floor(ms / bucket) * bucket
FloorTo(ms, bucket) == IF ms.fin THEN Fin((ms.n \div bucket) * bucket) ELSE NaN

\* mutant: the bucket is twice the cache lifetime
BucketMsDouble(cacheSeconds) == (IF cacheSeconds > 1 THEN cacheSeconds ELSE 1) * 2000

\* Math.max(1, cacheSeconds) * 1000
BucketMs(cacheSeconds) == (IF cacheSeconds > 1 THEN cacheSeconds ELSE 1) * 1000

\* new Date(ms).toISOString(): one text per instant
IsoString(ms) == "iso" \o ToString(ms)

\* spec.cache_seconds ?? 30 (history), ?? 300 (statistics)
HistoryCacheSeconds(spec) == IF spec.cache_seconds.has THEN spec.cache_seconds.n ELSE 30
StatisticsCacheSeconds(spec) == IF spec.cache_seconds.has THEN spec.cache_seconds.n ELSE 300

\* mutant: the implicit end is the unbucketed clock reading
HistoryEndMsUnbucketed(spec, nowMs) == ParseTime(spec.end, Fin(nowMs))

\* fetchHistory: endMs (bucketed when the end is implicit)
HistoryEndMs(spec, nowMs) ==
  LET endMs == ParseTime(spec.end, Fin(nowMs)) IN
  IF spec.end.k = "null"
  THEN FloorTo(endMs, BucketMs(HistoryCacheSeconds(spec)))
  ELSE endMs

\* fetchHistory: startMs
HistoryStartMs(spec, endMs) ==
  IF spec.start.k # "null"
  THEN ParseTime(spec.start, Minus(endMs, 24 * 3600000))
  ELSE Minus(endMs, (IF spec.hours.has THEN spec.hours.n ELSE 24) * 3600000)

\* fetchStatistics: endMs (always bucketed)
StatisticsEndMs(spec, nowMs) ==
  LET endMs == IF spec.end.k # "null" THEN ParseTime(spec.end, Fin(nowMs)) ELSE Fin(nowMs) IN
  FloorTo(endMs, BucketMs(StatisticsCacheSeconds(spec)))

\* fetchStatistics: startMs
StatisticsStartMs(spec, endMs) ==
  LET days == IF spec.days.has THEN spec.days.n ELSE 14 IN
  IF spec.start.k # "null"
  THEN ParseTime(spec.start, Minus(endMs, days * 86400000))
  ELSE Minus(endMs, days * 86400000)

\* a string field or its default
OrElse(v, default) == IF v = Null THEN default ELSE v

\* spec.series_overrides is the sequence of its entries, in key order: `key` names a
\* series, `type` and `showSymbol` are the fields the entry sets (Null: not set);
\* <<>> is the field left out of the spec.
\* JSON.stringify of one entry
JsonOverride(o) ==
  LET fields == (IF o.type # Null THEN <<"\"type\":\"" \o o.type \o "\"">> ELSE <<>>)
                  \o (IF o.showSymbol # Null THEN <<"\"showSymbol\":" \o o.showSymbol>>
                      ELSE <<>>)
  IN "\"" \o o.key \o "\":{" \o JoinStr(fields, ",") \o "}"

\* JSON.stringify(spec.series_overrides ?? {})
JsonOverrides(overrides) ==
  "{" \o JoinStr([i \in 1..Len(overrides) |-> JsonOverride(overrides[i])], ",") \o "}"

\* `spec.series_overrides?.[displayName] ?? spec.series_overrides?.[id]`; the stores
\* explored carry no friendly names, so displayName is the id
SeriesOverrides(spec, id) ==
  LET at == {i \in 1..Len(spec.series_overrides) : spec.series_overrides[i].key = id}
  IN IF at = {} THEN [key |-> id, type |-> Null, showSymbol |-> Null]
     ELSE spec.series_overrides[CHOOSE i \in at : TRUE]

\* historyCacheKey(spec, startMs, endMs)
HistoryCacheKey(spec, startMs, endMs) ==
  LET ids == JoinStr(spec.entities, ",")
      sample == IF spec.sample.has
                THEN ToString(spec.sample.max_points) \o ":" \o OrElse(spec.sample.method, "mean")
                ELSE ""
      overrides == IF spec.series_overrides # <<>>
                   THEN JsonOverrides(spec.series_overrides) ELSE ""
      minimal == IF spec.minimal_response THEN "1" ELSE "0"
  IN JoinStr(<<ids, ToString(startMs), ToString(endMs), OrElse(spec.attr, ""),
               OrElse(spec.coerce, "number"), OrElse(spec.transforms, "{}"),
               OrElse(spec.mode, ""), OrElse(spec.series_type, ""),
               sample, overrides, minimal>>, "|")

\* statisticsCacheKey(spec, startIso, endIso)
StatisticsCacheKey(spec, startIso, endIso) ==
  JoinStr(<<JoinStr(spec.entities, ","), startIso, endIso, OrElse(spec.period, "day"),
            OrElse(spec.stat_type, "change"), OrElse(spec.mode, ""),
            OrElse(spec.series_type, ""), JsonOverrides(spec.series_overrides)>>, "|")

\* the derived time range and key of a call: ok = FALSE when the call throws
\* before the cache lookup (tagged invalid-time error, or RangeError of toISOString)
FetchPlan(spec, nowMs) ==
  IF spec.kind = "history"
  THEN LET endMs == HistoryEndMs(spec, nowMs)
           startMs == HistoryStartMs(spec, endMs)
       IN IF endMs.fin /\ startMs.fin
          THEN [ok |-> TRUE, key |-> HistoryCacheKey(spec, startMs.n, endMs.n),
                cacheSeconds |-> HistoryCacheSeconds(spec)]
          ELSE [ok |-> FALSE, key |-> "", cacheSeconds |-> HistoryCacheSeconds(spec)]
  ELSE LET endMs == StatisticsEndMs(spec, nowMs)
           startMs == StatisticsStartMs(spec, endMs)
       IN IF endMs.fin /\ startMs.fin
          THEN [ok |-> TRUE,
                key |-> StatisticsCacheKey(spec, IsoString(startMs.n), IsoString(endMs.n)),
                cacheSeconds |-> StatisticsCacheSeconds(spec)]
          ELSE [ok |-> FALSE, key |-> "", cacheSeconds |-> StatisticsCacheSeconds(spec)]

\* mutant: a cached entry is never considered fresh
CacheHitNever(cache, key, nowMs) == FALSE

\* mutant: an entry is still served at the instant it expires
CacheHitAtExpiry(cache, key, nowMs) ==
  /\ key \in DOMAIN cache
  /\ cache[key].expiresAt >= nowMs

\* `cached && cached.expiresAt > nowMs`
CacheHit(cache, key, nowMs) ==
  /\ key \in DOMAIN cache
  /\ cache[key].expiresAt > nowMs

\* cache.set(key, entry) on a Map
CachePut(cache, key, entry) ==
  [k \in (DOMAIN cache) \cup {key} |-> IF k = key THEN entry ELSE cache[k]]

\* the value computed from a transport response: the response data in the inferred
\* mode; in series mode there is one series per entity, built as
\* Object.assign({name, type, showSymbol, data}, overrides) for a $history generator
\* and Object.assign({name, type, data}, overrides) for a $statistics generator:
\* `type` and `showSymbol` list those fields series by series
FetchResult(spec, response) ==
  LET inferredMode == IF spec.mode # Null THEN spec.mode
                      ELSE IF Len(spec.entities) > 1 THEN "series" ELSE "values"
      series == IF spec.kind = "history" THEN inferredMode # "values"
                ELSE inferredMode \notin {"values", "pairs"}
      seriesType == OrElse(spec.series_type, IF spec.kind = "history" THEN "line" ELSE "bar")
      showSymbol == IF spec.kind = "history" THEN OrElse(spec.show_symbol, "false") ELSE Null
  IN [mode |-> inferredMode,
      data |-> response,
      type |-> IF series
               THEN [i \in 1..Len(spec.entities) |->
                       OrElse(SeriesOverrides(spec, spec.entities[i]).type, seriesType)]
               ELSE Null,
      showSymbol |-> IF series
                     THEN [i \in 1..Len(spec.entities) |->
                             OrElse(SeriesOverrides(spec, spec.entities[i]).showSymbol,
                                    showSymbol)]
                     ELSE Null]

\* the generator specs explored
\* an optional boolean field: absent, or set to b
NoFlag == [has |-> FALSE, b |-> FALSE]
Flag(b) == [has |-> TRUE, b |-> b]

\* `flag ?? fallback`
FlagOr(flag, fallback) == IF flag.has THEN flag.b ELSE fallback

BaseFetchSpec ==
  [kind |-> "history", entities |-> <<"e1">>, end |-> TimeNull, start |-> TimeNull,
   hours |-> NoNum, days |-> NoNum, cache_seconds |-> NoNum,
   attr |-> Null, coerce |-> Null, transforms |-> Null, mode |-> Null,
   series_type |-> Null, sample |-> [has |-> FALSE, max_points |-> 0, method |-> Null],
   series_overrides |-> <<>>, minimal_response |-> FALSE, period |-> Null, stat_type |-> Null,
   show_symbol |-> Null, exclude_unavailable |-> NoFlag, include_unavailable |-> NoFlag]

FetchSpecs ==
  {[BaseFetchSpec EXCEPT !.kind = kind, !.end = endT, !.cache_seconds = cs] :
     kind \in {"history", "statistics"},
     endT \in {TimeNull, TimeNum(1000), TimeNonFinite, TimeBadStr},
     cs \in {NoNum, Num(1)}}
  \cup {[BaseFetchSpec EXCEPT !.mode = "series", !.cache_seconds = Num(1), !.show_symbol = s] :
          s \in {Null, "true"}}
  \cup {[BaseFetchSpec EXCEPT !.cache_seconds = Num(0)]}
  \cup {[BaseFetchSpec EXCEPT
            !.entities = <<"e1", "e2">>, !.cache_seconds = Num(1),
            !.series_overrides = <<[key |-> "e2", type |-> "bar", showSymbol |-> "true"]>>]}

\* what the transport can answer
Responses == {"r1", "r2"}

\* the two calls the engine is observed on
CallIds == {"c1", "c2"}

IdleCall ==
  [st |-> "idle", spec |-> BaseFetchSpec, nowMs |-> 0, key |-> "", queried |-> FALSE,
   value |-> FetchResult(BaseFetchSpec, "none"), after |-> {}]

\* mutant: fetchHistory adds the entity ids before its time-range guard
WatchedByCallAlways(watched, spec, plan) == watched \cup Range(spec.entities)

\* the watched set after the call: fetchHistory adds the entity ids once the time range
\* passed its guard, fetchStatistics before it formats the range
WatchedByCall(watched, spec, plan) ==
  IF spec.kind = "statistics" \/ plan.ok THEN watched \cup Range(spec.entities)
  ELSE watched

\* fetchHistory / fetchStatistics up to the transport call: throws on an invalid
\* range, returns the cached value on a hit, else issues the request and suspends
FetchStart(c, spec) ==
  /\ fCalls[c].st = "idle"
  /\ LET nowMs == TickMs(fNow)
         plan == FetchPlan(spec, nowMs)
         call == [IdleCall EXCEPT !.spec = spec, !.nowMs = nowMs, !.key = plan.key,
                    !.after = {d \in CallIds : fCalls[d].st \in {"returned", "rejected"}}]
     IN IF ~plan.ok
        THEN /\ fCalls' = [fCalls EXCEPT ![c] = [call EXCEPT !.st = "rejected"]]
             /\ UNCHANGED <<fCache, fQueries>>
        ELSE IF CacheHit(fCache, plan.key, nowMs)
        THEN /\ fCalls' = [fCalls EXCEPT ![c] =
                  [call EXCEPT !.st = "returned", !.value = fCache[plan.key].value]]
             /\ UNCHANGED <<fCache, fQueries>>
        ELSE /\ fCalls' = [fCalls EXCEPT ![c] = [call EXCEPT !.st = "awaiting", !.queried = TRUE]]
             /\ fQueries' = fQueries + 1
             /\ UNCHANGED fCache
  /\ fWatched' = WatchedByCall(fWatched, spec, FetchPlan(spec, TickMs(fNow)))
  /\ UNCHANGED fNow

\* the transport answers: the result is computed, cached and returned
FetchResolve(c, response) ==
  /\ fCalls[c].st = "awaiting"
  /\ LET call == fCalls[c]
         result == FetchResult(call.spec, response)
         cacheSeconds == FetchPlan(call.spec, call.nowMs).cacheSeconds
     IN /\ fCache' = CachePut(fCache, call.key,
                       [ts |-> call.nowMs, value |-> result,
                        expiresAt |-> call.nowMs + cacheSeconds * 1000])
        /\ fCalls' = [fCalls EXCEPT ![c] = [call EXCEPT !.st = "returned", !.value = result]]
  /\ UNCHANGED <<fNow, fQueries, fWatched>>

\* mutant: the rejection is cached like an answer
FetchRejectCaching(c) ==
  /\ fCalls[c].st = "awaiting"
  /\ fCalls' = [fCalls EXCEPT ![c].st = "rejected"]
  /\ fCache' = CachePut(fCache, fCalls[c].key,
                        [ts |-> fCalls[c].nowMs, value |-> fCalls[c].value,
                         expiresAt |-> fCalls[c].nowMs + 1000])
  /\ UNCHANGED <<fNow, fQueries, fWatched>>

\* the transport rejects: the call rejects, nothing is cached
FetchReject(c) ==
  /\ fCalls[c].st = "awaiting"
  /\ fCalls' = [fCalls EXCEPT ![c].st = "rejected"]
  /\ UNCHANGED <<fCache, fNow, fQueries, fWatched>>

\* time passes
FetchTick ==
  /\ fNow < MaxTick
  /\ fNow' = fNow + 1
  /\ UNCHANGED <<fCache, fCalls, fQueries, fWatched>>

InitFetchVars ==
  /\ fCache = <<>>
  /\ fCalls = [c \in CallIds |-> IdleCall]
  /\ fNow \in 0..1
  /\ fQueries = 0
  /\ fWatched = {}

IdleFetchVars ==
  /\ fCache = <<>>
  /\ fCalls = [c \in CallIds |-> IdleCall]
  /\ fNow = 0
  /\ fQueries = 0
  /\ fWatched = {}

(***************************************************************************)
(* The card: src/src/echarts-raw-card.ts (EchartsRawCard), with            *)
(* tokens/guards, tokens/resolve and minHistoryCacheSecondsInOptionTree.   *)
(*                                                                         *)
(* The whole card is one record, `card`; a handler is an operator from the *)
(* card before the call to the card after it, so that handlers calling one *)
(* another compose as in the code.  An asynchronous resolution is a run:   *)
(* it executes synchronously up to its next await and is resumed by a      *)
(* later step.  The host's calls (setConfig, the hass setter, the          *)
(* lifecycle callbacks) only write fields; a changed reactive property     *)
(* requests an update, and the element performs one update (render,        *)
(* firstUpdated, updated) in a microtask after the host's task, for all    *)
(* properties changed in that task.  Updates are enabled by the first      *)
(* connectedCallback.  An observer callback and a transport answer are     *)
(* tasks of their own; a run suspended on a settled promise is resumed     *)
(* before the next task.  chart.resize() may throw (safeResize catches it  *)
(* and disposes the instance); echarts.init() and dispose() are taken not  *)
(* to throw.  The updates requested by _error and _loading alone take no   *)
(* branch of updated() and are left out.  The size of the container is the *)
(* layout's: a connected container may have it in the update that renders  *)
(* it (a visible card) or get it in a later task; in SpecCard it keeps a   *)
(* size once it has one while connected, in SpecCardLayout it may lose it. *)
(***************************************************************************)

\* run ids explored (the counter is unbounded in the code)
MaxRuns == 2

\* clock readings explored, in ticks of one second
MaxCardTick == 2

\* Date.now()
CardTickMs(tick) == tick * 1000

\* --- option trees ----------------------------------------------------------

\* a value of the option tree: a primitive `v`, an { $entity } token, a { $data },
\* { $history } or { $statistics } generator, an array of `kids`, or a plain object
\* whose keys are `keys` and whose values are `kids`
PrimNode ==
  [t |-> "prim", v |-> "x", id |-> "", spec |-> BaseFetchSpec, keys |-> <<>>, kids |-> <<>>]
Prim(v) == [PrimNode EXCEPT !.v = v]
EntityNode(id) == [PrimNode EXCEPT !.t = "entity", !.id = id]
DataNode(spec) == [PrimNode EXCEPT !.t = "data", !.spec = spec]
HistoryNode(spec) == [PrimNode EXCEPT !.t = "history", !.spec = spec]
StatisticsNode(spec) == [PrimNode EXCEPT !.t = "statistics", !.spec = spec]
ArrNode(kids) == [PrimNode EXCEPT !.t = "arr", !.kids = kids]
ObjKeyed(keys, kids) == [PrimNode EXCEPT !.t = "obj", !.keys = keys, !.kids = kids]
ObjNode(kids) == ObjKeyed(SubSeq(<<"a", "b", "c", "d">>, 1, Len(kids)), kids)

\* `!input` over the primitives of the trees (strings, null, undefined): null,
\* undefined and ""
Falsy(input) == input.t = "prim" /\ input.v \in {Null, Undefined, ""}

\* a $history spec over one entity
HistSpec(entityId, cacheSeconds, endT) ==
  [BaseFetchSpec EXCEPT !.entities = <<entityId>>, !.cache_seconds = Num(cacheSeconds),
                        !.end = endT]

\* a $statistics spec over one entity
StatSpec(entityId, cacheSeconds) ==
  [HistSpec(entityId, cacheSeconds, TimeNull) EXCEPT !.kind = "statistics"]

\* the configurations explored: "hist" holds a history generator over e1 with
\* cache_seconds 1 and an implicit end, "bad" the same generator with a non-finite end,
\* followed by a sibling $entity token, "stat" a statistics generator over e1 with
\* cache_seconds 1
Configs == {"hist", "bad", "stat"}

\* config.option; "none" is the card before setConfig
OptionOf(config) ==
  CASE config = "hist" ->
         ObjNode(<<HistoryNode(HistSpec("e1", 1, TimeNull))>>)
    [] config = "bad" ->
         ObjNode(<<HistoryNode(HistSpec("e1", 1, TimeNonFinite)), EntityNode("e1")>>)
    [] config = "stat" ->
         ObjNode(<<StatisticsNode(StatSpec("e1", 1))>>)
    [] OTHER -> PrimNode

\* isHistoryGenerator(v), isDataGenerator(v), isTokenObject(v): a non-array object
\* carrying the reserved key
IsHistoryGenerator(v) == v.t = "history"
IsDataGenerator(v) == v.t = "data"
IsTokenObject(v) == v.t = "entity"

RECURSIVE ContainsHistoryToken(_)
\* containsHistoryToken(input); the values of a $data, $statistics or $entity object
\* (its spec) hold no history generator
ContainsHistoryToken(input) ==
  CASE Falsy(input) -> FALSE
    [] IsHistoryGenerator(input) -> TRUE
    [] input.t = "arr" -> \E i \in 1..Len(input.kids) : ContainsHistoryToken(input.kids[i])
    [] input.t = "obj" -> \E i \in 1..Len(input.kids) : ContainsHistoryToken(input.kids[i])
    [] OTHER -> FALSE

\* the cache_seconds values the walk of minHistoryCacheSecondsInOptionTree folds into min
RECURSIVE CacheSecondsIn(_)
CacheSecondsIn(v) ==
  CASE Falsy(v) -> {}
    [] IsHistoryGenerator(v) ->
         IF v.spec.cache_seconds.has /\ v.spec.cache_seconds.n > 0
         THEN {v.spec.cache_seconds.n} ELSE {}
    [] v.t \in {"arr", "obj"} -> UNION {CacheSecondsIn(v.kids[i]) : i \in 1..Len(v.kids)}
    [] OTHER -> {}

\* minHistoryCacheSecondsInOptionTree(option, fallback)
MinHistoryCacheSecondsInOptionTree(option, fallback) ==
  LET all == CacheSecondsIn(option) IN
  IF all = {} THEN fallback ELSE CHOOSE m \in all : \A n \in all : m <= n

\* the entity ids deepResolveTokensAsync adds to its `watched` set over a whole tree
RECURSIVE TreeEntities(_)
TreeEntities(input) ==
  CASE Falsy(input) -> {}
    [] input.t \in {"history", "statistics", "data"} -> Range(input.spec.entities)
    [] input.t = "entity" -> {input.id}
    [] input.t \in {"arr", "obj"} ->
         UNION {TreeEntities(input.kids[i]) : i \in 1..Len(input.kids)}
    [] OTHER -> {}

\* --- the card object ---------------------------------------------------------

\* the stores the card is shown: entity e1 in one of two states, light or dark theme
CardStores ==
  {[entityId \in {"e1"} |-> st] :
     st \in {[state |-> "on", last_updated |-> "t1"], [state |-> "off", last_updated |-> "t2"]}}

CardHass == {Hass(states, dark) : states \in CardStores, dark \in BOOLEAN}

\* the stores of the light theme
LightHass == {Hass(states, FALSE) : states \in CardStores}

\* a call of _applyOptionAsync that is not suspended: not started yet, or over
NoRun ==
  [st |-> "idle", config |-> "none", by |-> "none", pos |-> 0, pend |-> "none", at |-> 0,
   over |-> FALSE]

\* what the last step did (observer): the branch an update cycle took, or the run a
\* resumption ended and how
NoEv == [branch |-> "none", rid |-> 0, out |-> "none"]

\* the card after construction (field initialisers of the class)
NewCard ==
  [config |-> "none",             \* _config
   hass |-> NoHass,               \* hass
   conn |-> "new",                \* "new" (never connected), "yes", "no"
   el |-> FALSE,                  \* the container has been rendered
   sized |-> FALSE,               \* hasSize(el)
   observer |-> FALSE,            \* _resizeObserver is installed
   chart |-> FALSE,               \* _chart is defined
   attached |-> FALSE,            \* getAttachedInstance(el) is defined
   applied |-> 0,                 \* run whose option the chart shows, 0 for none
   echartsTheme |-> Undefined,    \* _echartsTheme
   watchedEntities |-> {},        \* _watchedEntities
   lastFingerprints |-> <<>>,     \* _lastFingerprints
   historyCache |-> <<>>,         \* _historyCache
   nextHistoryAllowedMs |-> 0,    \* _nextHistoryAllowedMs
   loading |-> FALSE,             \* _loading
   error |-> Null,                \* _error
   changed |-> {},                \* the changed properties of the requested update
   isUpdatePending |-> TRUE,      \* an update is requested (the constructor requests one)
   hasUpdated |-> FALSE,          \* the first update was performed
   runId |-> 0,                   \* _runId
   runs |-> [rid \in 1..MaxRuns |-> NoRun],   \* the calls of _applyOptionAsync
   runStates |-> NoHass,          \* the store read by the suspended call with id _runId
   now |-> 0,                     \* the clock, in ticks
   lastStart |-> -1,              \* tick of the last start since setConfig (observer)
   ev |-> NoEv]                   \* what the last step did (observer)

\* --- chart helpers -----------------------------------------------------------

\* _desiredEchartsTheme(hass)
DesiredEchartsTheme(hass) == IF hass.defined /\ hass.dark THEN "dark" ELSE Undefined

\* disposeChart(this._chart); this._chart = undefined.  _chart never refers to an
\* instance other than the attached one: it is undefined, attached, or disposed.
DisposeChart(c) ==
  IF ~c.chart THEN c ELSE [c EXCEPT !.chart = FALSE, !.attached = FALSE, !.applied = 0]

\* safeResize(chart, el); throws: chart.resize() throws, and the instance is disposed
\* while this._chart still refers to it
SafeResize(c, throws) ==
  IF ~c.sized THEN c
  ELSE IF throws THEN [c EXCEPT !.attached = FALSE, !.applied = 0]
  ELSE c

\* _ensureChart(): an instance attached to the container is reused, else one is created
EnsureChart(c) ==
  IF ~c.el THEN c
  ELSE IF ~c.sized THEN c
  ELSE IF c.attached THEN [c EXCEPT !.chart = TRUE]
  ELSE [c EXCEPT !.echartsTheme = DesiredEchartsTheme(c.hass), !.chart = TRUE,
                 !.attached = TRUE, !.applied = 0]

\* _recreateChartForTheme()
RecreateChartForTheme(c, throws) ==
  IF ~c.el THEN c
  ELSE IF ~c.sized
       THEN [DisposeChart(c) EXCEPT !.echartsTheme = DesiredEchartsTheme(c.hass)]
       ELSE LET c1 == EnsureChart(DisposeChart(c))
            IN IF c1.chart THEN SafeResize(c1, throws) ELSE c1

\* the ResizeObserver callback of firstUpdated
OnResize(c, throws) ==
  LET c1 == EnsureChart(c) IN
  IF ~c1.chart THEN c1
  ELSE IF ~c1.sized THEN c1
  ELSE LET c2 == SafeResize(c1, throws)
       IN IF ~c2.attached THEN [c2 EXCEPT !.chart = FALSE] ELSE c2

\* --- a resolution ------------------------------------------------------------

\* deepResolveTokensAsync reaching the k-th value of the option object: a $history
\* generator calls _fetchHistory, which runs fetchHistory up to its await
VisitToken(c, rid, k) ==
  LET token == OptionOf(c.runs[rid].config).kids[k]
      nowMs == CardTickMs(c.now)
      plan == FetchPlan(token.spec, nowMs)
      run == [c.runs[rid] EXCEPT !.pos = k]
  IN IF token.t # "history" \/ ~c.hass.defined
     THEN [c EXCEPT !.runs[rid] = [run EXCEPT !.pend = "val", !.at = 0]]
     ELSE IF ~plan.ok
     THEN [c EXCEPT !.runs[rid] = [run EXCEPT !.pend = "err", !.at = 0]]
     ELSE LET c1 == [c EXCEPT !.watchedEntities = @ \cup Range(token.spec.entities)]
          IN IF CacheHit(c.historyCache, plan.key, nowMs)
             THEN [c1 EXCEPT !.runs[rid] = [run EXCEPT !.pend = "val", !.at = 0]]
             ELSE [c1 EXCEPT !.runs[rid] = [run EXCEPT !.pend = "net", !.at = c.now]]

\* mutant: no result is ever considered superseded
IsStaleNever(c, rid) == FALSE

\* `runId !== this._runId`
IsStale(c, rid) == rid # c.runId

\* the finally block; the run is over with outcome `out`
Finally(c, rid, out) ==
  [c EXCEPT !.loading = IF rid = c.runId THEN FALSE ELSE @,
            !.runs[rid] = NoRun,
            !.runStates = IF rid = c.runId THEN NoHass ELSE @,
            !.ev = [NoEv EXCEPT !.rid = rid, !.out = out]]

\* the catch block, then finally
CatchBlock(c, rid, msg) ==
  Finally([DisposeChart(c) EXCEPT !.error = msg], rid,
          IF rid = c.runId THEN "failed" ELSE "stalefailed")

\* _applyOptionAsync after its await returned a value; outcome "throw": setOption
\* throws, "resize": the resize that follows the snapshot throws
Commit(c, rid, outcome) ==
  IF IsStale(c, rid) THEN Finally(c, rid, "dropped")
  ELSE LET c1 == EnsureChart(c) IN
       IF ~c1.chart THEN Finally(c1, rid, "nochart")
       ELSE LET c2 == [c1 EXCEPT !.watchedEntities = TreeEntities(OptionOf(c.runs[rid].config))]
            IN IF outcome = "throw" THEN CatchBlock(c2, rid, "chart")
               ELSE Finally(SafeResize([c2 EXCEPT
                                          !.applied = IF c2.attached THEN rid ELSE 0,
                                          !.lastFingerprints =
                                             SnapshotFingerprints(c2.hass, c2.watchedEntities, @)],
                                       outcome = "resize"),
                            rid, "committed")

\* the awaited value of the current token arrived: on to the next token, or to the commit
Continue(c, rid, outcome) ==
  IF c.runs[rid].pos < Len(OptionOf(c.runs[rid].config).kids)
  THEN VisitToken(c, rid, c.runs[rid].pos + 1)
  ELSE Commit(c, rid, outcome)

\* a suspended run is resumed; `answer` is what the transport did with its request
Resume(c, rid, answer, outcome) ==
  LET run == c.runs[rid]
      token == OptionOf(run.config).kids[run.pos]
      nowMs == CardTickMs(run.at)
      plan == FetchPlan(token.spec, nowMs)
  IN CASE run.pend = "val" -> Continue(c, rid, outcome)
       [] run.pend = "err" -> CatchBlock(c, rid, "time")
       [] OTHER ->
            IF answer = "reject" THEN CatchBlock(c, rid, "network")
            ELSE Continue([c EXCEPT !.historyCache =
                             CachePut(@, plan.key,
                                      [ts |-> nowMs, value |-> FetchResult(token.spec, answer),
                                       expiresAt |-> nowMs + plan.cacheSeconds * 1000])],
                          rid, outcome)

\* config.option contains a $history generator
NeedsHistory(c) == c.config # "none" /\ ContainsHistoryToken(OptionOf(c.config))

\* _applyOptionAsync() up to its await; `by` names the caller
ApplyOptionAsync(c, by) ==
  IF c.config = "none" THEN c
  ELSE IF ~c.el \/ ~c.sized THEN c
  ELSE LET c1 == EnsureChart(c) IN
       IF ~c1.chart THEN c1
       ELSE LET runId == c1.runId + 1
                needsHistory == NeedsHistory(c1)
                ttl == MinHistoryCacheSecondsInOptionTree(OptionOf(c1.config), 30) * 1000
                c2 == [c1 EXCEPT
                         !.runId = runId,
                         !.runStates = IF runId \notin DOMAIN c1.runs THEN @
                                       ELSE IF c1.hass.defined THEN Hass(c1.hass.states, FALSE)
                                       ELSE NoHass,
                         !.nextHistoryAllowedMs =
                            IF needsHistory THEN CardTickMs(c1.now) + ttl ELSE @,
                         !.loading = IF needsHistory THEN TRUE ELSE @,
                         !.error = Null,
                         !.lastStart = c1.now,
                         !.runs = [rid \in DOMAIN @ |->
                                     IF rid = runId
                                     THEN [NoRun EXCEPT !.st = "await", !.config = c1.config,
                                                        !.by = by]
                                     ELSE IF by = "theme" /\ @[rid].st = "await"
                                          THEN [@[rid] EXCEPT !.over = TRUE]
                                          ELSE @[rid]]]
            IN IF runId \in DOMAIN c2.runs THEN VisitToken(c2, runId, 1) ELSE c2

\* --- update cycle --------------------------------------------------------------

\* `nextTheme !== this._echartsTheme`
ThemeSwitch(c) == DesiredEchartsTheme(c.hass) # c.echartsTheme

\* `this._loading && this._config?.option && containsHistoryToken(this._config.option)`
LoadingGuard(c) == c.loading /\ NeedsHistory(c)

\* containsHistoryToken(option) && Date.now() < this._nextHistoryAllowedMs
Throttled(c) == NeedsHistory(c) /\ CardTickMs(c.now) < c.nextHistoryAllowedMs

\* _shouldUpdateForHassChange()
CardShouldUpdate(c) ==
  /\ c.config # "none"
  /\ ShouldUpdateForHassChange(c.hass, c.watchedEntities, c.lastFingerprints)

\* the branch updated(changed) takes
UpdatedBranch(c, changed) ==
  IF "_config" \in changed THEN "config"
  ELSE IF "hass" \notin changed THEN "none"
  ELSE IF ThemeSwitch(c) THEN "theme"
  ELSE IF LoadingGuard(c) THEN "loading"
  ELSE IF Throttled(c) THEN "throttle"
  ELSE IF CardShouldUpdate(c) THEN "apply"
  ELSE "unchanged"

\* updated(changed); throws: the resize of _recreateChartForTheme throws
Updated(c, changed, throws) ==
  LET branch == UpdatedBranch(c, changed)
      c1 == CASE branch = "config" /\ c.chart -> RecreateChartForTheme(c, throws)
              [] branch = "config" /\ ~c.chart -> EnsureChart(c)
              [] branch = "theme" -> RecreateChartForTheme(c, throws)
              [] OTHER -> c
  IN IF branch \in {"config", "theme", "apply"}
     THEN ApplyOptionAsync(c1, IF branch = "apply" THEN "hass" ELSE branch)
     ELSE c

\* firstUpdated(); throws: the resize of the first onResize() throws
FirstUpdated(c, throws) ==
  IF ~c.el THEN c
  ELSE LET c1 == OnResize([c EXCEPT !.observer = TRUE], throws)
       IN IF c1.chart THEN ApplyOptionAsync(c1, "first") ELSE c1

\* render(): the container is part of the template once a configuration is set.
\* laidOut: the layout gives the container of a connected card its size as soon as it
\* is rendered (a visible card); else it gets its size in a later task, if at all
Render(c, laidOut) ==
  LET el == c.config # "none"
  IN [c EXCEPT !.el = el,
               !.sized = IF el /\ ~c.el THEN c.conn = "yes" /\ laidOut ELSE @]

\* performUpdate(): the requested update, for the properties changed since the last:
\* render, firstUpdated() in the first update, then updated(changed)
PerformUpdate(c, laidOut, throwsFirst, throws) ==
  LET c0 == Render(c, laidOut)
      c1 == IF c.hasUpdated THEN c0 ELSE FirstUpdated(c0, throwsFirst)
      c2 == Updated(c1, c.changed, throws)
      branch == IF c.hasUpdated THEN UpdatedBranch(c1, c.changed) ELSE "first"
  IN [c2 EXCEPT !.changed = {}, !.isUpdatePending = FALSE, !.hasUpdated = TRUE,
                !.ev = [NoEv EXCEPT !.branch = branch]]

\* requestUpdate(name): the property is recorded as changed and an update is requested
RequestUpdate(c, name) == [c EXCEPT !.changed = @ \cup {name}, !.isUpdatePending = TRUE]

\* the requested update is queued as a microtask: updates were enabled by a
\* connectedCallback
UpdateQueued(c) == c.isUpdatePending /\ c.conn # "new"

\* a run is suspended on a promise that is already settled: its continuation is a
\* queued microtask
MicrotaskPending(c) ==
  \E rid \in DOMAIN c.runs : c.runs[rid].st = "await" /\ c.runs[rid].pend \in {"val", "err"}

\* no microtask is queued: the next task may run
TaskMayRun(c) == ~MicrotaskPending(c) /\ ~UpdateQueued(c)

\* --- the host's calls: they run inside a task, ahead of the update they request -------

\* setConfig(config)
CardSetConfig(config) ==
  /\ ~MicrotaskPending(card)
  /\ LET c0 == [card EXCEPT
                  !.config = config,
                  !.error = Null,
                  !.loading = FALSE,
                  !.watchedEntities = {},
                  !.lastFingerprints = <<>>,
                  !.nextHistoryAllowedMs = 0,
                  !.echartsTheme = Undefined,
                  !.lastStart = -1,
                  !.runs = [rid \in DOMAIN @ |->
                              IF @[rid].st = "await" THEN [@[rid] EXCEPT !.over = TRUE]
                              ELSE @[rid]],
                  !.ev = NoEv]
     IN card' = RequestUpdate(c0, "_config")

\* a store-change notification: the host assigns hass
CardSetHass(hass) ==
  /\ ~MicrotaskPending(card)
  /\ card' = RequestUpdate([card EXCEPT !.hass = hass, !.ev = NoEv], "hass")

\* connectedCallback(): the first one enables the updates
CardConnect ==
  /\ ~MicrotaskPending(card)
  /\ card.conn # "yes"
  /\ card' = [card EXCEPT !.conn = "yes", !.ev = NoEv]

\* disconnectedCallback(); a detached container has no size
CardDisconnect ==
  /\ ~MicrotaskPending(card)
  /\ card.conn = "yes"
  /\ card.runId < MaxRuns
  /\ card' = [DisposeChart(card) EXCEPT
                !.conn = "no", !.observer = FALSE, !.sized = FALSE, !.runId = @ + 1,
                !.runStates = NoHass, !.ev = NoEv]

\* --- microtasks and tasks ------------------------------------------------------------

\* the update requested in the task that just ended is performed
CardUpdate(laidOut, throwsFirst, throws) ==
  /\ UpdateQueued(card)
  /\ ~MicrotaskPending(card)
  /\ LET c1 == PerformUpdate(card, laidOut, throwsFirst, throws)
     IN /\ c1.runId <= MaxRuns
        /\ card' = c1

\* a later task of the layout: the connected container gets its size, or is resized;
\* the observer, if any, fires
CardResize(throws) ==
  /\ TaskMayRun(card)
  /\ card.el
  /\ card.conn = "yes"
  /\ LET c0 == [card EXCEPT !.sized = TRUE, !.ev = NoEv]
     IN card' = IF card.observer THEN OnResize(c0, throws) ELSE c0

\* the layout takes the size of the connected container away (a hidden tab); the
\* observer, if any, fires and finds nothing to do
CardHide ==
  /\ TaskMayRun(card)
  /\ card.el
  /\ card.conn = "yes"
  /\ card.sized
  /\ LET c0 == [card EXCEPT !.sized = FALSE, !.ev = NoEv]
     IN card' = IF card.observer THEN OnResize(c0, FALSE) ELSE c0

\* the suspended run rid is resumed.  outcome: "ok", the awaited value arrives (the
\* transport, if asked, answers) and the chart takes the option; "reject", the transport
\* rejects the request; "throw", the value arrives and chart.setOption throws; "resize",
\* the chart takes the option and the resize after it throws
CardResume(rid, outcome) ==
  /\ card.runs[rid].st = "await"
  /\ card.runs[rid].pend = "net" => TaskMayRun(card)
  /\ outcome = "reject" => card.runs[rid].pend = "net"
  /\ card' = Resume([card EXCEPT !.ev = NoEv], rid,
                    IF outcome = "reject" THEN "reject" ELSE "r1", outcome)

\* time passes
CardTick ==
  /\ TaskMayRun(card)
  /\ card.now < MaxCardTick
  /\ card' = [card EXCEPT !.now = @ + 1, !.ev = NoEv]

InitCardVars == card = NewCard

IdleCardVars == card = NewCard
(***************************************************************************)
(* Number transforms: src/src/tokens/transforms.ts (applyNumberTransforms). *)
(* A JS number is a record: a finite value n, or NaN, Infinity, -Infinity.  *)
(* The inputs explored are integers on which every stage is exact.          *)
(***************************************************************************)

JsNum(n) == [k |-> "fin", n |-> n]
JsNaN == [k |-> "nan", n |-> 0]
JsInf == [k |-> "inf", n |-> 0]
JsNegInf == [k |-> "ninf", n |-> 0]

\* Number.isFinite(x)
IsFinite(x) == x.k = "fin"

\* an absent stage, a stage with a number, the pair of $clamp
NoStage == [has |-> FALSE, n |-> 0, m |-> 0]
Stage(n) == [has |-> TRUE, n |-> n, m |-> 0]
StagePair(min, max) == [has |-> TRUE, n |-> min, m |-> max]

\* $map: absent, or { type, base, add, pow } with the defaults base ?? 10, add ?? 1 filled in
\* (str: the string of the shorthand form, which has no `type` property)
NoMap == [type |-> "none", base |-> 10, add |-> 1, pow |-> 1, str |-> ""]
MapLog(base, add) == [NoMap EXCEPT !.type = "log", !.base = base, !.add = add]
MapSqrt == [NoMap EXCEPT !.type = "sqrt"]
MapPow(pow) == [NoMap EXCEPT !.type = "pow", !.pow = pow]
MapString(str) == [NoMap EXCEPT !.type = Undefined, !.str = str]

\* base to the power e, e >= 0
RECURSIVE IntPow(_, _)
IntPow(base, e) == IF e = 0 THEN 1 ELSE base * IntPow(base, e - 1)

\* Math.log(arg) / Math.log(base) for base > 1: NaN below zero, -Infinity at zero, the
\* exponent when arg is a power of base (no other argument is explored: the quotient
\* is not an integer there)
LogOf(arg, base) ==
  IF arg < 0 THEN JsNaN
  ELSE IF arg = 0 THEN JsNegInf
  ELSE JsNum(CHOOSE e \in 0..arg : IntPow(base, e) = arg)

\* Math.sqrt(x) for a perfect square x >= 0 (no other argument is explored: the root
\* is not an integer there)
SqrtOf(x) == JsNum(CHOOSE r \in 0..x : r * r = x)

\* the $map stage, on a finite x
MapStage(x, m) ==
  CASE m.type = "log" -> LogOf(x.n + m.add, m.base)
    [] m.type = "sqrt" -> IF x.n < 0 THEN JsNum(0) ELSE SqrtOf(x.n)
    [] m.type = "pow" -> JsNum(IntPow(x.n, m.pow))
    [] OTHER -> x

\* Math.abs(x)
AbsOf(x) ==
  CASE x.k = "fin" -> JsNum(IF x.n < 0 THEN -x.n ELSE x.n)
    [] x.k = "nan" -> JsNaN
    [] OTHER -> JsInf

\* x * a for a finite a
TimesOf(x, a) ==
  CASE x.k = "fin" -> JsNum(x.n * a)
    [] x.k = "nan" -> JsNaN
    [] OTHER -> IF a = 0 THEN JsNaN
                ELSE IF (a > 0) = (x.k = "inf") THEN JsInf ELSE JsNegInf

\* x + b for a finite b
PlusOf(x, b) == IF x.k = "fin" THEN JsNum(x.n + b) ELSE x

\* Math.max(lo, x) for a finite lo
MaxOf(lo, x) ==
  CASE x.k = "fin" -> JsNum(IF x.n < lo THEN lo ELSE x.n)
    [] x.k = "ninf" -> JsNum(lo)
    [] OTHER -> x

\* Math.min(hi, x) for a finite hi
MinOf(hi, x) ==
  CASE x.k = "fin" -> JsNum(IF x.n > hi THEN hi ELSE x.n)
    [] x.k = "inf" -> JsNum(hi)
    [] OTHER -> x

\* Math.round(x * p) / p with p = Math.pow(10, digits), on integers: the identity for
\* digits >= 0, the nearest multiple of 10^-digits (halves up) for digits < 0
RoundOf(x, digits) ==
  IF x.k # "fin" \/ digits >= 0 THEN x
  ELSE LET q == IntPow(10, -digits) IN JsNum(((2 * x.n + q) \div (2 * q)) * q)

\* mutant: the offset is added before the scale is applied
ApplyNumberTransformsOffsetFirst(value, token) ==
  IF ~IsFinite(value)
  THEN IF token.default.has THEN JsNum(token.default.n) ELSE value
  ELSE LET x1 == MapStage(value, token.map)
           x2 == IF token.abs THEN AbsOf(x1) ELSE x1
           x3 == IF token.offset.has THEN PlusOf(x2, token.offset.n) ELSE x2
           x4 == IF token.scale.has THEN TimesOf(x3, token.scale.n) ELSE x3
           x5 == IF token.min.has THEN MaxOf(token.min.n, x4) ELSE x4
           x6 == IF token.max.has THEN MinOf(token.max.n, x5) ELSE x5
           x7 == IF token.clamp.has
                 THEN MinOf(token.clamp.m, MaxOf(token.clamp.n, x6)) ELSE x6
       IN IF token.round.has THEN RoundOf(x7, token.round.n) ELSE x7

\* applyNumberTransforms(value, token), value already a number
ApplyNumberTransforms(value, token) ==
  IF ~IsFinite(value)
  THEN IF token.default.has THEN JsNum(token.default.n) ELSE value
  ELSE LET x1 == MapStage(value, token.map)
           x2 == IF token.abs THEN AbsOf(x1) ELSE x1
           x3 == IF token.scale.has THEN TimesOf(x2, token.scale.n) ELSE x2
           x4 == IF token.offset.has THEN PlusOf(x3, token.offset.n) ELSE x3
           x5 == IF token.min.has THEN MaxOf(token.min.n, x4) ELSE x4
           x6 == IF token.max.has THEN MinOf(token.max.n, x5) ELSE x5
           x7 == IF token.clamp.has
                 THEN MinOf(token.clamp.m, MaxOf(token.clamp.n, x6)) ELSE x6
       IN IF token.round.has THEN RoundOf(x7, token.round.n) ELSE x7

\* --- the calls explored -------------------------------------------------------------

TransformValues == {JsNum(n) : n \in {-9, 0, 4, 9, 99}} \cup {JsNaN}

TransformTokens ==
  [map : {NoMap, MapLog(10, 1), MapLog(10, 0), MapSqrt, MapPow(2),
          MapString("log"), MapString("sqrt")},
   abs : BOOLEAN,
   scale : {NoStage, Stage(2)},
   offset : {NoStage, Stage(5)},
   min : {NoStage, Stage(5)},
   max : {NoStage, Stage(50)},
   clamp : {NoStage, StagePair(3, 7)},
   round : {NoStage, Stage(-1)},
   default : {NoStage, Stage(7)}]

\* the calls on which every stage is exact on integers: the logarithm is taken of
\* powers of ten, the root of perfect squares
TransformCalls ==
  {call \in [value : TransformValues, token : TransformTokens] :
     /\ (call.token.map.type = "log" /\ IsFinite(call.value)) =>
          call.value.n + call.token.map.add \in {-9, -8, 0, 1, 10, 100}
     /\ (call.token.map.type = "sqrt" /\ IsFinite(call.value)) =>
          call.value.n \in {-9, 0, 4, 9}}

NoTransformOut == [done |-> FALSE, value |-> JsNum(0)]

\* one call of applyNumberTransforms
TransformCall ==
  /\ ~tfOut.done
  /\ tfOut' = [done |-> TRUE, value |-> ApplyNumberTransforms(tfIn.value, tfIn.token)]
  /\ UNCHANGED tfIn

InitTransformVars ==
  /\ tfIn \in TransformCalls
  /\ tfOut = NoTransformOut

IdleTransformVars ==
  /\ tfIn = [value |-> JsNum(0), token |-> [map |-> NoMap, abs |-> FALSE, scale |-> NoStage,
                                            offset |-> NoStage, min |-> NoStage,
                                            max |-> NoStage, clamp |-> NoStage,
                                            round |-> NoStage, default |-> NoStage]]
  /\ tfOut = NoTransformOut

(***************************************************************************)
(* downsample (history/downsample.ts)                                      *)
(***************************************************************************)

\* longest point list explored
MaxLen == 4

\* largest timestamp explored
MaxStamp == 4

\* largest maxPoints explored
MaxPoints == 3

\* a string value of a point
JsStr(s) == [k |-> "str", s |-> s]

\* `Number.isFinite(Number(v))` for the value of a point
IsNumeric(v) == v.k = "fin"

\* one point [t, v]
Point(t, v) == [t |-> t, v |-> v]

\* `Math.min(maxPoints - 1, Math.floor((p[0] - firstT) / bucketSize))` with
\* bucketSize = span / maxPoints; on the timestamps explored the quotient is an
\* integer only where span / maxPoints is exact, so the floor is the integer quotient
BucketIndex(t, firstT, span, maxPoints) ==
  LET idx == ((t - firstT) * maxPoints) \div span
  IN IF idx < maxPoints - 1 THEN idx ELSE maxPoints - 1

\* sum of the numeric values of a bucket
RECURSIVE SumOf(_)
SumOf(b) == IF b = <<>> THEN 0 ELSE Head(b).v.n + SumOf(Tail(b))

\* the point a non-empty bucket contributes: its last timestamp with its last value
\* ("last") or with the mean of its numeric values, the last value when it has none
\* (the values explored are multiples of 60, so that every mean is an integer)
BucketPoint(b, method) ==
  LET lastP == b[Len(b)]
      numeric == SelectSeq(b, LAMBDA p : IsNumeric(p.v))
  IN IF method = "last" THEN lastP
     ELSE Point(lastP.t, IF Len(numeric) > 0 THEN JsNum(SumOf(numeric) \div Len(numeric))
                         ELSE lastP.v)

\* the points of the buckets i..maxPoints-1, empty buckets skipped
RECURSIVE BucketsFrom(_, _, _, _)
BucketsFrom(i, points, maxPoints, method) ==
  IF i >= maxPoints THEN <<>>
  ELSE LET firstT == points[1].t
           lastT == points[Len(points)].t
           span == IF lastT - firstT > 1 THEN lastT - firstT ELSE 1
           b == SelectSeq(points, LAMBDA p : BucketIndex(p.t, firstT, span, maxPoints) = i)
       IN (IF b = <<>> THEN <<>> ELSE <<BucketPoint(b, method)>>)
            \o BucketsFrom(i + 1, points, maxPoints, method)

\* the early return inverted: a list longer than maxPoints comes back whole
DownsampleKeepLong(points, maxPoints, method) ==
  IF Len(points) >= maxPoints \/ maxPoints <= 1 THEN points
  ELSE BucketsFrom(0, points, maxPoints, method)

\* downsample(points, maxPoints, method)
Downsample(points, maxPoints, method) ==
  IF Len(points) <= maxPoints \/ maxPoints <= 1 THEN points
  ELSE LET out == BucketsFrom(0, points, maxPoints, method)
           last == points[Len(points)]
       IN IF out # <<>> /\ out[Len(out)].t # last.t THEN Append(out, last) ELSE out

\* the values of the points explored
PointValues == {JsNum(0), JsNum(60), JsStr("unavailable")}

\* the point lists explored: as fetchHistory hands them over, sorted by timestamp
PointLists ==
  UNION {{s \in [1..n -> [t : 0..MaxStamp, v : PointValues]] :
            \A i \in 1..(n - 1) : s[i].t <= s[i + 1].t} : n \in 0..MaxLen}

NoDownsampleOut == [done |-> FALSE, points |-> <<>>]

DownsampleCall ==
  /\ ~dsOut.done
  /\ dsOut' = [done |-> TRUE, points |-> Downsample(dsIn.points, dsIn.maxPoints, dsIn.method)]
  /\ UNCHANGED dsIn

InitDownsampleVars ==
  /\ dsIn \in [points : PointLists, maxPoints : 1..MaxPoints, method : {"mean", "last"}]
  /\ dsOut = NoDownsampleOut

IdleDownsampleVars ==
  /\ dsIn = [points |-> <<>>, maxPoints |-> 1, method |-> "mean"]
  /\ dsOut = NoDownsampleOut

(***************************************************************************)
(* History points: coerceValue, applyTransformsWithSpec and                *)
(* coerceHistoryPointNumber (tokens/transforms.ts), on raw snapshot values *)
(* that are numbers or strings.                                            *)
(***************************************************************************)

JsBool(b) == [k |-> "bool", b |-> b]

\* `undefined`, returned for a point that is to be dropped
JsUndefined == [k |-> "undefined"]

\* the state strings explored
RawStrings ==
  {"on", "On", "off", "true", "false", "yes", "no", "home", "not_home", "open", "closed",
   "10", " 10 ", "unavailable", ""}

\* `raw.trim()` on the strings explored
Trim(s) == IF s = " 10 " THEN "10" ELSE s

\* `raw.toLowerCase().trim()` on the strings explored
LowerTrim(s) == IF s = "On" THEN "on" ELSE Trim(s)

\* Number(s) for a string: "" is 0, a numeral (spaces around it ignored) its number,
\* any other string explored NaN
StringToNumber(s) ==
  CASE Trim(s) = "" -> JsNum(0)
    [] Trim(s) = "0" -> JsNum(0)
    [] Trim(s) = "1" -> JsNum(1)
    [] Trim(s) = "5" -> JsNum(5)
    [] Trim(s) = "10" -> JsNum(10)
    [] OTHER -> JsNaN

\* String(x) for a number
NumberToString(x) ==
  CASE x.k = "fin" -> ToString(x.n)
    [] x.k = "nan" -> "NaN"
    [] x.k = "inf" -> "Infinity"
    [] OTHER -> "-Infinity"

\* `typeof v === "number" ? v : Number(v)`
ToNumber(v) ==
  CASE v.k = "str" -> StringToNumber(v.s)
    [] v.k = "bool" -> JsNum(IF v.b THEN 1 ELSE 0)
    [] v.k = "undefined" -> JsNaN
    [] OTHER -> v

\* `typeof v === "number"`
IsNumber(v) == v.k \in {"fin", "nan", "inf", "ninf"}

\* coerceValue(raw, mode) for a raw number or string
CoerceValue(raw, mode) ==
  CASE mode = "string" -> IF raw.k = "str" THEN raw ELSE JsStr(NumberToString(raw))
    [] mode = "bool" ->
         IF IsNumber(raw) THEN JsBool(raw # JsNum(0))
         ELSE LET s == LowerTrim(raw.s)
              IN IF s \in {"on", "true", "1", "yes", "home", "open"} THEN JsBool(TRUE)
                 ELSE IF s \in {"off", "false", "0", "no", "not_home", "closed"}
                      THEN JsBool(FALSE)
                 ELSE JsBool(s # "")
    [] mode = "number" -> IF IsFinite(ToNumber(raw)) THEN ToNumber(raw) ELSE JsNaN
    [] OTHER ->
         IF IsNumber(raw) \/ Trim(raw.s) = "" THEN raw
         ELSE IF IsFinite(StringToNumber(raw.s)) THEN StringToNumber(raw.s) ELSE raw

\* applyNumberTransforms(value, token) for a value of any type: Number(value) first,
\* `token.$default ?? value` when that is not finite
ApplyNumberTransformsTo(value, token) ==
  IF ~IsFinite(ToNumber(value))
  THEN IF token.default.has THEN JsNum(token.default.n) ELSE value
  ELSE ApplyNumberTransforms(ToNumber(value), token)

\* the token applyTransformsWithSpec builds from def and transforms
SpecToken(def, transforms) == [transforms EXCEPT !.default = def]

\* applyTransformsWithSpec(value, entityId, def, coerce, transforms)
ApplyTransformsWithSpec(value, def, coerce, transforms) ==
  LET coerced == CoerceValue(value, OrElse(coerce, "auto"))
  IN IF coerced = JsNaN THEN JsNum(IF def.has THEN def.n ELSE 0)
     ELSE ApplyNumberTransformsTo(coerced, SpecToken(def, transforms))

\* a point whose final value is not finite is kept with that value
CoerceHistoryPointNumberKeepAll(raw, def, coerce, transforms) ==
  ToNumber(ApplyTransformsWithSpec(raw, def, OrElse(coerce, "number"), transforms))

\* coerceHistoryPointNumber(raw, entityId, def, coerce, transforms)
CoerceHistoryPointNumber(raw, def, coerce, transforms) ==
  LET v == ApplyTransformsWithSpec(raw, def, OrElse(coerce, "number"), transforms)
      n == ToNumber(v)
  IN IF ~IsFinite(n) THEN JsUndefined ELSE n

\* no transforms, and the two explored: scale by 100, log of x + 0
NoTransforms ==
  [map |-> NoMap, abs |-> FALSE, scale |-> NoStage, offset |-> NoStage, min |-> NoStage,
   max |-> NoStage, clamp |-> NoStage, round |-> NoStage, default |-> NoStage]

PointTransforms ==
  {NoTransforms, [NoTransforms EXCEPT !.scale = Stage(100)],
   [NoTransforms EXCEPT !.map = MapLog(10, 0)]}

\* the calls explored: the log is taken of 0, 1 and 10 only
PointCalls ==
  [raw : {JsNum(1)} \cup {JsStr(s) : s \in RawStrings},
   def : {NoStage, Stage(5)},
   coerce : {Null, "number", "auto", "string", "bool"},
   transforms : PointTransforms]

NoPointOut == [done |-> FALSE, value |-> JsUndefined, points |-> <<>>]

\* one round of the decode loop of fetchHistory: coerceHistoryPointNumber on the raw
\* value of a snapshot, `if (n == null) continue`, else the point is pushed
PointCall ==
  /\ ~hpOut.done
  /\ LET n == CoerceHistoryPointNumber(hpIn.raw, hpIn.def, hpIn.coerce, hpIn.transforms)
     IN hpOut' = [done |-> TRUE, value |-> n,
                  points |-> IF n = JsUndefined THEN <<>> ELSE <<n>>]
  /\ UNCHANGED hpIn

InitPointVars ==
  /\ hpIn \in PointCalls
  /\ hpOut = NoPointOut

IdlePointVars ==
  /\ hpIn = [raw |-> JsNum(1), def |-> NoStage, coerce |-> Null, transforms |-> NoTransforms]
  /\ hpOut = NoPointOut

(***************************************************************************)
(* Token resolution: deepResolveTokensAsync (tokens/resolve) over the       *)
(* option trees above.  The call awaits every array element and every      *)
(* object value: it runs up to the first value it visits, and each later    *)
(* value is visited by a resumption of its own, so that `watched` and the   *)
(* fetcher calls grow value by value until the returned promise settles.    *)
(* The fetchers handed to the resolver are taken to answer every spec with  *)
(* one value; a call whose fetcher rejects returns nothing and is not a     *)
(* resolved tree.                                                           *)
(***************************************************************************)

\* bound of the trees explored: the number of elements of an array, of keys of an object
MaxWidth == 2

\* a resolved value that stands where a generator stood
ValueNode(v) == [PrimNode EXCEPT !.t = "value", !.v = v]

\* a resolved value that is a number, held as String(x)
NumberNode(x) == [PrimNode EXCEPT !.t = "number", !.v = NumberToString(x)]

\* the node of a JS string or number
JsValueNode(v) == IF v.k = "str" THEN ValueNode(v.s) ELSE NumberNode(v)

\* isStatisticsGenerator(v): a non-array object carrying $statistics
IsStatisticsGenerator(v) == v.t = "statistics"

\* what the fetchHistory / fetchStatistics callbacks answer for a spec
HistoryAnswer(spec) == ValueNode("history:" \o JoinStr(spec.entities, ","))
StatisticsAnswer(spec) == ValueNode("statistics:" \o JoinStr(spec.entities, ","))

\* mutant: without a fetcher the statistics generator resolves to undefined
ResolveStatisticsUndefined(spec, hasFetcher) ==
  IF ~hasFetcher THEN ValueNode(Undefined) ELSE StatisticsAnswer(spec)

\* the $statistics branch: `if (!fetchStatistics) return []; return fetchStatistics(spec)`
ResolveStatistics(spec, hasFetcher) ==
  IF ~hasFetcher THEN ArrNode(<<>>) ELSE StatisticsAnswer(spec)

\* `hass?.states?.[id]` is an entity object
HasState(hass, id) == hass.defined /\ id \in DOMAIN hass.states

\* `!st || st.state === "unavailable" || st.state === "unknown"`
Unavailable(hass, id) ==
  ~HasState(hass, id) \/ hass.states[id].state \in {"unavailable", "unknown"}

\* the $data loop does not `continue` at the unavailable-entity filter
PassesUnavailableFilter(spec, hass, id) ==
  LET excludeUnavailable == FlagOr(spec.exclude_unavailable, TRUE)
      includeLegacy == FlagOr(spec.include_unavailable, FALSE)
  IN Unavailable(hass, id) =>
       /\ ~((excludeUnavailable /\ ~includeLegacy) \/ ~HasState(hass, id))
       /\ includeLegacy

\* the ids of the rows the $data branch builds, in the order of spec.entities
DataRows(spec, hass) ==
  SelectSeq(spec.entities, LAMBDA id : PassesUnavailableFilter(spec, hass, id))

\* the $data branch: the rows built from the store for the listed entities
ResolveData(spec, hass) == ValueNode("rows:" \o JoinStr(DataRows(spec, hass), ","))

\* the $entity branch of a token { $entity: id }: `input.$default` (not set) for an
\* entity the store does not hold, else
\* applyNumberTransforms(coerceValue(st.state, "auto"), input)
ResolveEntity(entityId, hass) ==
  IF HasState(hass, entityId)
  THEN JsValueNode(ApplyNumberTransformsTo(
                     CoerceValue(JsStr(hass.states[entityId].state), "auto"), NoTransforms))
  ELSE ValueNode(Undefined)

\* mutant: the resolved array keeps only its truthy elements
AssembleCompact(input, outs) ==
  [input EXCEPT !.kids = SelectSeq(outs, LAMBDA o : ~Falsy(o))]

\* the array / object branch: `out` holds the resolved values in the input's order,
\* an object's under the input's keys
Assemble(input, outs) == [input EXCEPT !.kids = outs]

\* deepResolveTokensAsync(input, hass, watched, fetchHistory, fetchStatistics): the
\* value the returned promise resolves to
RECURSIVE DeepResolveTokens(_, _, _)
DeepResolveTokens(input, hass, hasFetcher) ==
  CASE Falsy(input) -> input
    [] IsHistoryGenerator(input) -> HistoryAnswer(input.spec)
    [] IsStatisticsGenerator(input) -> ResolveStatistics(input.spec, hasFetcher)
    [] IsDataGenerator(input) -> ResolveData(input.spec, hass)
    [] IsTokenObject(input) -> ResolveEntity(input.id, hass)
    [] input.t \in {"arr", "obj"} ->
         Assemble(input, [i \in 1..Len(input.kids) |->
                            DeepResolveTokens(input.kids[i], hass, hasFetcher)])
    [] OTHER -> input

\* mutant: the elements of an array and the values of an object are visited last to
\* first
RECURSIVE LeavesOfBackwards(_)
LeavesOfBackwards(input) ==
  IF input.t \in {"arr", "obj"} /\ input.kids # <<>>
  THEN (IF Tail(input.kids) = <<>> THEN <<>>
        ELSE LeavesOfBackwards([input EXCEPT !.kids = Tail(@)]))
         \o LeavesOfBackwards(Head(input.kids))
  ELSE <<input>>

\* the values deepResolveTokensAsync returns from without awaiting (primitives, tokens,
\* generators, empty arrays and objects), in the order the call reaches them: each
\* array element and each object value is awaited before the next one is visited
RECURSIVE LeavesOf(_)
LeavesOf(input) ==
  IF input.t \in {"arr", "obj"} /\ input.kids # <<>>
  THEN LeavesOf(Head(input.kids))
         \o (IF Tail(input.kids) = <<>> THEN <<>>
             ELSE LeavesOf([input EXCEPT !.kids = Tail(@)]))
  ELSE <<input>>

\* the fetcher call made at a value: fetchHistory at a $history generator,
\* fetchStatistics, when it is given, at a $statistics generator
LeafCalls(leaf, hasFetcher) ==
  CASE Falsy(leaf) -> <<>>
    [] IsHistoryGenerator(leaf) -> <<[fetcher |-> "history", spec |-> leaf.spec]>>
    [] IsStatisticsGenerator(leaf) ->
         IF hasFetcher THEN <<[fetcher |-> "statistics", spec |-> leaf.spec]>> ELSE <<>>
    [] OTHER -> <<>>

\* the promise is settled when the call returns: the input is no array or object with
\* elements to await, and no fetcher's promise is returned
SettlesAtOnce(input, hasFetcher) ==
  /\ ~(input.t \in {"arr", "obj"} /\ input.kids # <<>>)
  /\ LeafCalls(input, hasFetcher) = <<>>

\* --- the trees explored ------------------------------------------------------------

\* sequences over S of length at most n
SeqsUpTo(S, n) == UNION {[1..k -> S] : k \in 0..n}

\* primitives, tokens and generators
TreeLeaves ==
  {Prim("x"), Prim(""), EntityNode("e1"), DataNode(BaseFetchSpec),
   HistoryNode(HistSpec("e1", 2, TimeNull)),
   StatisticsNode([HistSpec("e2", 1, TimeNull) EXCEPT !.kind = "statistics"])}

\* arrays and objects of leaves
TreesOfLeaves ==
  {ArrNode(kids) : kids \in SeqsUpTo(TreeLeaves, MaxWidth)}
    \cup {ObjNode(kids) : kids \in SeqsUpTo(TreeLeaves, MaxWidth)}

\* $data generators over a present, an unavailable and an absent entity, with every
\* setting of the two flags
DataSpecs ==
  {[BaseFetchSpec EXCEPT !.entities = <<"e1", "e2">>,
                         !.exclude_unavailable = ex, !.include_unavailable = inc] :
     ex \in {NoFlag, Flag(TRUE), Flag(FALSE)}, inc \in {NoFlag, Flag(TRUE), Flag(FALSE)}}

\* leaves, arrays/objects of leaves, and one more level around those
ResolveTrees ==
  TreeLeaves \cup TreesOfLeaves \cup {DataNode(spec) : spec \in DataSpecs}
    \cup {ArrNode(<<n>>) : n \in TreesOfLeaves}
    \cup {ObjNode(<<n, Prim("x")>>) : n \in TreesOfLeaves}
    \cup {ObjNode(<<HistoryNode(HistSpec("e1", 2, TimeNull)), n>>) : n \in TreesOfLeaves}

NoResolveOut ==
  [started |-> FALSE, pos |-> 0, done |-> FALSE, value |-> PrimNode, watched |-> {},
   calls |-> <<>>, scanned |-> FALSE, needsHistory |-> FALSE, ttl |-> 0]

\* the call reaches its next value: the entity ids of the value are added to `watched`
\* and its fetcher, if any, is called
VisitLeaf(out, input, hasFetcher) ==
  LET leaf == LeavesOf(input)[out.pos + 1]
  IN [out EXCEPT !.pos = @ + 1,
                 !.watched = @ \cup TreeEntities(leaf),
                 !.calls = @ \o LeafCalls(leaf, hasFetcher)]

\* the returned promise settles with the resolved tree
Settle(out, input, hass, hasFetcher) ==
  [out EXCEPT !.done = TRUE, !.value = DeepResolveTokens(input, hass, hasFetcher)]

\* one call of deepResolveTokensAsync on a fresh watched set, up to its return to the
\* caller: the first value is visited
ResolveCall ==
  /\ ~rsOut.started
  /\ LET out == VisitLeaf([rsOut EXCEPT !.started = TRUE], rsIn, rsStats)
     IN rsOut' = IF SettlesAtOnce(rsIn, rsStats) THEN Settle(out, rsIn, rsHass, rsStats)
                 ELSE out
  /\ UNCHANGED <<rsIn, rsHass, rsStats>>

\* the call is resumed after the value it awaited: the next value is visited, or, after
\* the last one, the promise settles
ResolveResume ==
  /\ rsOut.started
  /\ ~rsOut.done
  /\ rsOut' = IF rsOut.pos < Len(LeavesOf(rsIn)) THEN VisitLeaf(rsOut, rsIn, rsStats)
               ELSE Settle(rsOut, rsIn, rsHass, rsStats)
  /\ UNCHANGED <<rsIn, rsHass, rsStats>>

\* the scans _applyOptionAsync runs on the option before resolving it:
\* needsHistory = containsHistoryToken(option),
\* ttl = minHistoryCacheSecondsInOptionTree(option, 30) * 1000
ScanCall ==
  /\ ~rsOut.scanned
  /\ rsOut' = [rsOut EXCEPT !.scanned = TRUE,
                             !.needsHistory = ContainsHistoryToken(rsIn),
                             !.ttl = MinHistoryCacheSecondsInOptionTree(rsIn, 30) * 1000]
  /\ UNCHANGED <<rsIn, rsHass, rsStats>>

InitResolveVars ==
  /\ rsIn \in ResolveTrees
  /\ rsHass \in {NoHass} \cup {Hass([entityId \in {"e1"} |->
                                        [state |-> st, last_updated |-> "t1"]], FALSE) :
                                   st \in {"on", "10", "unavailable", "unknown"}}
  /\ rsStats \in BOOLEAN
  /\ rsOut = NoResolveOut

IdleResolveVars ==
  /\ rsIn = PrimNode
  /\ rsHass = NoHass
  /\ rsStats = FALSE
  /\ rsOut = NoResolveOut

(***************************************************************************)
(* History decode: the loop of fetchHistory over one per-entity array of   *)
(* the response (history/fetch.ts) and the field readers of                *)
(* history/decode.ts.  A snapshot is [id, attrs, state, ts]: id is Null    *)
(* when the snapshot carries no entity id, attrs is NoNum when it carries  *)
(* no attributes object and Num(v) when its attributes hold v under the    *)
(* requested name, ts is NoNum when it carries no timestamp and Num(t) for *)
(* a number of seconds.                                                    *)
(***************************************************************************)

\* longest array explored
MaxArr == 3

\* histEntityId(s): `s.entity_id ?? s.e ?? s.id`
HistEntityId(s) == s.id

\* histState(s): `s.state ?? s.s ?? s.st`
HistState(s) == s.state

\* histAttributes(s): the attributes object, undefined without one
HistAttributes(s) == s.attrs

\* histTimestampMs(s) for a numeric timestamp: `t < 1e12 ? t * 1000 : t`, every
\* timestamp explored being a number of seconds far below 1e12
HistTimestampMs(s) == IF ~s.ts.has THEN NoNum ELSE Num(s.ts.n * 1000)

\* `histAttributes(s)?.[spec.attr]`
AttrValue(attrs) == IF attrs.has THEN JsNum(attrs.n) ELSE JsUndefined

\* the snapshot at index i of an array, from what it carries
Snapshot(shape, i) ==
  [id |-> shape.id, attrs |-> shape.attrs, state |-> JsNum(1),
   ts |-> IF shape.timed THEN Num(i) ELSE NoNum]

\* what a snapshot may carry: any combination with a timestamp, and one without
SnapshotShapes ==
  [id : {Null, "e1", "e2"}, attrs : {NoNum, Num(7), Num(9)}, timed : {TRUE}]
    \cup {[id |-> Null, attrs |-> NoNum, timed |-> FALSE]}

\* the arrays explored: non-empty, timestamps in order of position
HistoryArrays ==
  {[i \in 1..Len(shapes) |-> Snapshot(shapes[i], i)] :
     shapes \in SeqsUpTo(SnapshotShapes, MaxArr) \ {<<>>}}

\* the generators explored: entities, an attribute name or none, a default or none
DecodeSpecs ==
  [entities : {<<"e1">>, <<"e1", "e2">>}, attr : {Null, "power"},
   default : {NoStage, Stage(5)}]

\* one round of `for (const s of arr)`: the point of snapshot dcPos is pushed to the
\* list of its entity unless the entity, the timestamp or the number is missing
DecodeSnapshot ==
  /\ dcPos <= Len(dcIn.arr)
  /\ LET s == dcIn.arr[dcPos]
         arrEntityId == HistEntityId(dcIn.arr[1])
         id == OrElse(HistEntityId(s), arrEntityId)
         ts == HistTimestampMs(s)
         raw == IF dcIn.spec.attr # Null THEN AttrValue(HistAttributes(s))
                ELSE HistState(s)
         n == CoerceHistoryPointNumber(raw, dcIn.spec.default, Null, NoTransforms)
     IN dcOut' =
          IF id = Null \/ id \notin DOMAIN dcOut \/ ~ts.has \/ n = JsUndefined
          THEN dcOut
          ELSE [dcOut EXCEPT ![id] = Append(@, <<ts.n, n>>)]
  /\ dcPos' = dcPos + 1
  /\ UNCHANGED dcIn

\* `perEntity[id] = []` for every entity of the generator
EmptyPerEntity(entities) == [id \in Range(entities) |-> <<>>]

InitDecodeVars ==
  /\ dcIn \in [arr : HistoryArrays, spec : DecodeSpecs]
  /\ dcPos = 1
  /\ dcOut = EmptyPerEntity(dcIn.spec.entities)

IdleDecodeVars ==
  /\ dcIn = [arr |-> <<>>, spec |-> [entities |-> <<>>, attr |-> Null, default |-> NoStage]]
  /\ dcPos = 1
  /\ dcOut = EmptyPerEntity(<<>>)

(***************************************************************************)
(* Bulk extraction: the $data branch of deepResolveTokensAsync             *)
(* (tokens/resolve.ts), from the store to the projected result.            *)
(***************************************************************************)

\* largest limit explored
MaxLimit == 3

\* the entities a $data generator lists
DataEntities == <<"e1", "e2", "e3">>

\* `typeof value === "number" ? value : Number(value)`, then
\* `Number.isFinite(n) ? n : undefined`
RowNum(value) == IF IsFinite(ToNumber(value)) THEN Num(ToNumber(value).n) ELSE NoNum

\* the row of an entity that passed the unavailable filter
DataRow(spec, hass, id) ==
  LET value == ApplyTransformsWithSpec(JsStr(hass.states[id].state), spec.default,
                                       spec.coerce, NoTransforms)
  IN [id |-> id, name |-> id, value |-> value, num |-> RowNum(value)]

\* the loop over spec.entities: the rows pushed, in the order of spec.entities
RECURSIVE DataLoop(_, _, _)
DataLoop(spec, hass, entities) ==
  IF entities = <<>> THEN <<>>
  ELSE LET id == Head(entities)
           rest == DataLoop(spec, hass, Tail(entities))
       IN IF ~PassesUnavailableFilter(spec, hass, id) THEN rest
          ELSE LET row == DataRow(spec, hass, id)
               IN IF FlagOr(spec.exclude_zero, FALSE) /\ row.num = Num(0) THEN rest
                  ELSE <<row>> \o rest

\* the comparator of rows.sort is negative: a sorts before b.  A row without num counts
\* as Infinity under "asc" and as -Infinity under "desc"
SortsBefore(a, b, sort) ==
  /\ a.num.has
  /\ \/ ~b.num.has
     \/ IF sort = "asc" THEN a.num.n < b.num.n ELSE a.num.n > b.num.n

\* row inserted into a sorted list behind every row it does not sort before
RECURSIVE InsertRow(_, _, _)
InsertRow(sorted, row, sort) ==
  IF sorted = <<>> THEN <<row>>
  ELSE LET last == sorted[Len(sorted)]
       IN IF SortsBefore(row, last, sort)
          THEN Append(InsertRow(SubSeq(sorted, 1, Len(sorted) - 1), row, sort), last)
          ELSE Append(sorted, row)

\* Array.prototype.sort with the comparator above (a stable sort)
RECURSIVE StableSort(_, _)
StableSort(rows, sort) ==
  IF rows = <<>> THEN <<>>
  ELSE InsertRow(StableSort(SubSeq(rows, 1, Len(rows) - 1), sort), rows[Len(rows)], sort)

\* `if (sort === "asc") rows.sort(...) else if (sort === "desc") rows.sort(...)`
SortRows(rows, sort) == IF sort \in {"asc", "desc"} THEN StableSort(rows, sort) ELSE rows

\* the shorter of n and the length of rows
Shorter(n, rows) == IF n < Len(rows) THEN n ELSE Len(rows)

\* a limit of zero truncates too
SliceRowsFromZero(rows, limit) ==
  IF limit.has /\ limit.n >= 0 THEN SubSeq(rows, 1, Shorter(limit.n, rows)) ELSE rows

\* `typeof limit === "number" && limit > 0 ? rows.slice(0, limit) : rows`
SliceRows(rows, limit) ==
  IF limit.has /\ limit.n > 0 THEN SubSeq(rows, 1, Shorter(limit.n, rows)) ELSE rows

\* the projection to spec.mode
ProjectRows(rows, mode) ==
  [i \in 1..Len(rows) |->
     CASE mode = "names" -> rows[i].name
       [] mode = "values" -> rows[i].value
       [] OTHER -> [name |-> rows[i].name, value |-> rows[i].value]]

\* the states explored for an entity; "none" is an entity the store does not hold
DataStates == {"0", "5", "10", "on", "unavailable", "none"}

\* the stores explored
DataStores ==
  {Hass([id \in {e \in Range(DataEntities) : pick[e] # "none"} |->
           [state |-> pick[id], last_updated |-> "t1"]], FALSE) :
     pick \in [Range(DataEntities) -> DataStates]}

\* the generators explored
BulkSpecs ==
  [entities : {DataEntities}, exclude_unavailable : {NoFlag},
   include_unavailable : {NoFlag, Flag(TRUE)}, exclude_zero : {NoFlag, Flag(TRUE)},
   sort : {Null, "asc", "desc"}, limit : {NoNum} \cup {Num(n) : n \in -1..MaxLimit},
   mode : {Null, "names", "values"}, default : {NoStage}, coerce : {Null}]

\* a generator over the entities with every option left out
BaseBulkSpec ==
  [entities |-> DataEntities, exclude_unavailable |-> NoFlag, include_unavailable |-> NoFlag,
   exclude_zero |-> NoFlag, sort |-> Null, limit |-> NoNum, mode |-> Null,
   default |-> NoStage, coerce |-> Null]

\* mutant: an entity the store does not hold is skipped before it is registered
RECURSIVE DataWatchedOfHeld(_, _, _, _)
DataWatchedOfHeld(spec, hass, entities, watched) ==
  IF entities = <<>> THEN watched
  ELSE LET id == Head(entities)
       IN DataWatchedOfHeld(spec, hass, Tail(entities),
                            IF id \in DOMAIN hass.states THEN watched \cup {id} ELSE watched)

\* the watched set after the loop over spec.entities: `watched.add(id)` is the first
\* statement of a round, ahead of the unavailable filter and of every `continue`
RECURSIVE DataWatched(_, _, _, _)
DataWatched(spec, hass, entities, watched) ==
  IF entities = <<>> THEN watched
  ELSE DataWatched(spec, hass, Tail(entities), watched \cup {Head(entities)})

NoDataOut == [done |-> FALSE, rows |-> <<>>, sorted |-> <<>>, sliced |-> <<>>,
              result |-> <<>>, watched |-> {}]

\* the $data branch of deepResolveTokensAsync on bdIn
DataCall ==
  /\ ~bdOut.done
  /\ LET spec == bdIn.spec
         rows == DataLoop(spec, bdIn.hass, spec.entities)
         sorted == SortRows(rows, OrElse(spec.sort, "none"))
         sliced == SliceRows(sorted, spec.limit)
     IN bdOut' = [done |-> TRUE, rows |-> rows, sorted |-> sorted, sliced |-> sliced,
                  result |-> ProjectRows(sliced, OrElse(spec.mode, "pairs")),
                  watched |-> DataWatched(spec, bdIn.hass, spec.entities, {})]
  /\ UNCHANGED bdIn

InitDataVars ==
  /\ bdIn \in [spec : BulkSpecs, hass : DataStores]
  /\ bdOut = NoDataOut

IdleDataVars ==
  /\ bdIn = [spec |-> BaseBulkSpec, hass |-> NoHass]
  /\ bdOut = NoDataOut

(***************************************************************************)
(* Specifications                                                          *)
(***************************************************************************)

\* the variables SpecFetch leaves alone, and their idle values
OutsideFetch ==
  <<fpVars, lruVars, cardVars, resolveVars, transformVars, downsampleVars, pointVars,
    decodeVars, dataVars>>

InitFetch ==
  /\ InitFetchVars
  /\ IdleFpVars /\ IdleLruVars /\ IdleCardVars
  /\ IdleResolveVars /\ IdleTransformVars /\ IdleDownsampleVars
  /\ IdlePointVars /\ IdleDecodeVars /\ IdleDataVars

NextFetch ==
  \/ \E c \in CallIds, spec \in FetchSpecs : FetchStart(c, spec) /\ UNCHANGED OutsideFetch
  \/ \E c \in CallIds, response \in Responses :
       FetchResolve(c, response) /\ UNCHANGED OutsideFetch
  \/ \E c \in CallIds : FetchReject(c) /\ UNCHANGED OutsideFetch
  \/ FetchTick /\ UNCHANGED OutsideFetch

SpecFetch == InitFetch /\ [][NextFetch]_vars

\* the variables SpecFp leaves alone, and their idle values
OutsideFp ==
  <<fetchVars, lruVars, cardVars, resolveVars, transformVars, downsampleVars, pointVars,
    decodeVars, dataVars>>

InitFp ==
  /\ InitFpVars
  /\ IdleFetchVars /\ IdleLruVars /\ IdleCardVars
  /\ IdleResolveVars /\ IdleTransformVars /\ IdleDownsampleVars
  /\ IdlePointVars /\ IdleDecodeVars /\ IdleDataVars

NextFp ==
  \/ FpCheck /\ UNCHANGED OutsideFp
  \/ FpSnapshot /\ UNCHANGED OutsideFp
  \/ FpStoreChange /\ UNCHANGED OutsideFp

SpecFp == InitFp /\ [][NextFp]_vars

\* the variables SpecLru leaves alone, and their idle values
OutsideLru ==
  <<fetchVars, fpVars, cardVars, resolveVars, transformVars, downsampleVars, pointVars,
    decodeVars, dataVars>>

InitLru ==
  /\ InitLruVars
  /\ IdleFetchVars /\ IdleFpVars /\ IdleCardVars
  /\ IdleResolveVars /\ IdleTransformVars /\ IdleDownsampleVars
  /\ IdlePointVars /\ IdleDecodeVars /\ IdleDataVars

NextLru ==
  \/ \E key \in LruKeys : LruGet(key) /\ UNCHANGED OutsideLru
  \/ \E key \in LruKeys, value \in LruVals : LruSet(key, value) /\ UNCHANGED OutsideLru
  \/ \E key \in LruKeys : LruHas(key) /\ UNCHANGED OutsideLru
  \/ \E key \in LruKeys : LruDelete(key) /\ UNCHANGED OutsideLru
  \/ LruClear /\ UNCHANGED OutsideLru

SpecLru == InitLru /\ [][NextLru]_vars

\* the variables SpecCard leaves alone, and their idle values
OutsideCard ==
  <<fetchVars, fpVars, lruVars, resolveVars, transformVars, downsampleVars, pointVars,
    decodeVars, dataVars>>

InitCard ==
  /\ InitCardVars
  /\ IdleFetchVars /\ IdleFpVars /\ IdleLruVars
  /\ IdleResolveVars /\ IdleTransformVars /\ IdleDownsampleVars
  /\ IdlePointVars /\ IdleDecodeVars /\ IdleDataVars

NextCard ==
  \/ \E config \in Configs : CardSetConfig(config) /\ UNCHANGED OutsideCard
  \/ \E hass \in CardHass : CardSetHass(hass) /\ UNCHANGED OutsideCard
  \/ CardConnect /\ UNCHANGED OutsideCard
  \/ CardDisconnect /\ UNCHANGED OutsideCard
  \/ \E laidOut, throwsFirst, throws \in BOOLEAN :
       CardUpdate(laidOut, throwsFirst, throws) /\ UNCHANGED OutsideCard
  \/ \E throws \in BOOLEAN : CardResize(throws) /\ UNCHANGED OutsideCard
  \/ \E rid \in 1..MaxRuns, outcome \in {"ok", "reject", "throw", "resize"} :
       CardResume(rid, outcome) /\ UNCHANGED OutsideCard
  \/ CardTick /\ UNCHANGED OutsideCard

SpecCard == InitCard /\ [][NextCard]_vars

\* the variables SpecResolve leaves alone, and their idle values
OutsideResolve ==
  <<fetchVars, fpVars, lruVars, cardVars, transformVars, downsampleVars, pointVars,
    decodeVars, dataVars>>

InitResolve ==
  /\ InitResolveVars
  /\ IdleFetchVars /\ IdleFpVars /\ IdleLruVars
  /\ IdleCardVars /\ IdleTransformVars /\ IdleDownsampleVars
  /\ IdlePointVars /\ IdleDecodeVars /\ IdleDataVars

NextResolve ==
  \/ ResolveCall /\ UNCHANGED OutsideResolve
  \/ ResolveResume /\ UNCHANGED OutsideResolve
  \/ ScanCall /\ UNCHANGED OutsideResolve

SpecResolve == InitResolve /\ [][NextResolve]_vars

\* the variables SpecTransform leaves alone, and their idle values
OutsideTransform ==
  <<fetchVars, fpVars, lruVars, cardVars, resolveVars, downsampleVars, pointVars,
    decodeVars, dataVars>>

InitTransform ==
  /\ InitTransformVars
  /\ IdleFetchVars /\ IdleFpVars /\ IdleLruVars
  /\ IdleCardVars /\ IdleResolveVars /\ IdleDownsampleVars
  /\ IdlePointVars /\ IdleDecodeVars /\ IdleDataVars

NextTransform ==
  \/ TransformCall /\ UNCHANGED OutsideTransform

SpecTransform == InitTransform /\ [][NextTransform]_vars

\* the variables SpecDownsample leaves alone, and their idle values
OutsideDownsample ==
  <<fetchVars, fpVars, lruVars, cardVars, resolveVars, transformVars, pointVars,
    decodeVars, dataVars>>

InitDownsample ==
  /\ InitDownsampleVars
  /\ IdleFetchVars /\ IdleFpVars /\ IdleLruVars
  /\ IdleCardVars /\ IdleResolveVars /\ IdleTransformVars
  /\ IdlePointVars /\ IdleDecodeVars /\ IdleDataVars

NextDownsample ==
  \/ DownsampleCall /\ UNCHANGED OutsideDownsample

SpecDownsample == InitDownsample /\ [][NextDownsample]_vars

\* the variables SpecPoint leaves alone, and their idle values
OutsidePoint ==
  <<fetchVars, fpVars, lruVars, cardVars, resolveVars, transformVars, downsampleVars,
    decodeVars, dataVars>>

InitPoint ==
  /\ InitPointVars
  /\ IdleFetchVars /\ IdleFpVars /\ IdleLruVars
  /\ IdleCardVars /\ IdleResolveVars /\ IdleTransformVars
  /\ IdleDownsampleVars /\ IdleDecodeVars /\ IdleDataVars

NextPoint ==
  \/ PointCall /\ UNCHANGED OutsidePoint

SpecPoint == InitPoint /\ [][NextPoint]_vars

\* the variables SpecDecode leaves alone, and their idle values
OutsideDecode ==
  <<fetchVars, fpVars, lruVars, cardVars, resolveVars, transformVars, downsampleVars,
    pointVars, dataVars>>

InitDecode ==
  /\ InitDecodeVars
  /\ IdleFetchVars /\ IdleFpVars /\ IdleLruVars
  /\ IdleCardVars /\ IdleResolveVars /\ IdleTransformVars
  /\ IdleDownsampleVars /\ IdlePointVars /\ IdleDataVars

NextDecode ==
  \/ DecodeSnapshot /\ UNCHANGED OutsideDecode

SpecDecode == InitDecode /\ [][NextDecode]_vars

\* the variables SpecData leaves alone, and their idle values
OutsideData ==
  <<fetchVars, fpVars, lruVars, cardVars, resolveVars, transformVars, downsampleVars,
    pointVars, decodeVars>>

InitData ==
  /\ InitDataVars
  /\ IdleFetchVars /\ IdleFpVars /\ IdleLruVars
  /\ IdleCardVars /\ IdleResolveVars /\ IdleTransformVars
  /\ IdleDownsampleVars /\ IdlePointVars /\ IdleDecodeVars

NextData ==
  \/ DataCall /\ UNCHANGED OutsideData

SpecData == InitData /\ [][NextData]_vars

\* SpecCard with a container that may lose its size
InitCardLayout ==
  /\ InitCardVars
  /\ IdleFetchVars /\ IdleFpVars /\ IdleLruVars
  /\ IdleResolveVars /\ IdleTransformVars /\ IdleDownsampleVars
  /\ IdlePointVars /\ IdleDecodeVars /\ IdleDataVars

NextCardLayout ==
  \/ \E config \in Configs : CardSetConfig(config) /\ UNCHANGED OutsideCard
  \/ \E hass \in LightHass : CardSetHass(hass) /\ UNCHANGED OutsideCard
  \/ CardConnect /\ UNCHANGED OutsideCard
  \/ \E laidOut \in BOOLEAN : CardUpdate(laidOut, FALSE, FALSE) /\ UNCHANGED OutsideCard
  \/ CardResize(FALSE) /\ UNCHANGED OutsideCard
  \/ CardHide /\ UNCHANGED OutsideCard
  \/ \E rid \in 1..MaxRuns : CardResume(rid, "ok") /\ UNCHANGED OutsideCard

SpecCardLayout == InitCardLayout /\ [][NextCardLayout]_vars
(***************************************************************************)
(* Claims                                                                  *)
(***************************************************************************)

\* cache_seconds of a call's spec, with the default of its kind
CallCacheSeconds(call) ==
  IF call.spec.kind = "history" THEN HistoryCacheSeconds(call.spec)
  ELSE StatisticsCacheSeconds(call.spec)

\* call j was made after call i returned, with the same spec, less than
\* cache_seconds after call i
SecondWithinTtl(i, j) ==
  /\ i # j
  /\ fCalls[i].st = "returned"
  /\ fCalls[j].st = "returned"
  /\ fCalls[i].spec = fCalls[j].spec
  /\ i \in fCalls[j].after
  /\ fCalls[j].nowMs < fCalls[i].nowMs + CallCacheSeconds(fCalls[i]) * 1000

\* both calls derive the same time range: the end is an explicit time that
\* parses, or both clock readings lie in the same bucket (for a history end
\* that is given but does not parse, the end is the unbucketed clock reading)
SameTimeRange(i, j) ==
  LET spec == fCalls[i].spec
      bucket == BucketMs(CallCacheSeconds(fCalls[i]))
  IN \/ spec.end.k \in {"num", "str"}
     \/ fCalls[i].nowMs = fCalls[j].nowMs
     \/ /\ spec.kind = "statistics" \/ spec.end.k = "null"
        /\ fCalls[i].nowMs \div bucket = fCalls[j].nowMs \div bucket

\* C3 (as claimed): two completed calls with identical parameters, the second less
\* than cache_seconds after the first, issue exactly one query in total and the
\* second returns the value the first stored.
C3_SecondCallWithinTtlHits ==
  \A i, j \in CallIds :
    SecondWithinTtl(i, j) =>
      /\ fCalls[i].queried
      /\ ~fCalls[j].queried
      /\ fCalls[j].value = fCalls[i].value

\* C3 (amended): two completed calls with identical parameters, the second made
\* after the first returned and less than cache_seconds after it, and both
\* deriving the same time range, issue exactly one query in total and the second
\* returns the value the first stored.
C3_SecondCallSameRangeHits ==
  \A i, j \in CallIds :
    (SecondWithinTtl(i, j) /\ SameTimeRange(i, j)) =>
      /\ fCalls[i].queried
      /\ ~fCalls[j].queried
      /\ fCalls[j].value = fCalls[i].value
      /\ fQueries = 1

\* C3 witness: a second call with an implicit end, made at a later clock reading
\* of the same bucket, answered from the cache
C3_Witness ==
  \E i, j \in CallIds :
    /\ SecondWithinTtl(i, j) /\ SameTimeRange(i, j)
    /\ fCalls[i].spec.end.k = "null"
    /\ fCalls[j].nowMs > fCalls[i].nowMs
    /\ ~fCalls[j].queried

\* the fingerprint of a watched entity differs from the recorded one
FpDiffers(entityId) ==
  \/ entityId \notin DOMAIN fpLast
  \/ /\ entityId \in DOMAIN fpLast
     /\ entityId \in DOMAIN fpHass.states
     /\ fpLast[entityId] #
          fpHass.states[entityId].state \o "|" \o fpHass.states[entityId].last_updated
  \/ /\ entityId \in DOMAIN fpLast
     /\ entityId \notin DOMAIN fpHass.states
     /\ fpLast[entityId] # "missing"

\* C7: shouldUpdateForChange is true iff the store is available, the watched set
\* is non-empty and some watched entity's fingerprint ("state|last_updated", or
\* "missing" when absent) differs from the recorded one, an unrecorded entity
\* counting as different; it is false for an empty watched set, and the
\* disappearance and the reappearance of a watched entity are changes.
C7_ShouldUpdateIffFingerprintDiffers ==
  fpOut.done =>
    /\ fpOut.val <=>
         (fpHass.defined /\ fpWatched # {} /\ \E entityId \in fpWatched : FpDiffers(entityId))
    /\ fpWatched = {} => ~fpOut.val
    /\ \A entityId \in fpWatched :
         (/\ fpHass.defined
          /\ entityId \in DOMAIN fpLast
          /\ (fpLast[entityId] = "missing") # (entityId \notin DOMAIN fpHass.states))
         => fpOut.val

\* C7 witness: a watched entity recorded with a real fingerprint has disappeared
\* from the store, nothing else changed, and the check has answered true
C7_Witness ==
  /\ fpOut.done /\ fpOut.val /\ fpHass.defined
  /\ \E entityId \in fpWatched :
       /\ entityId \in DOMAIN fpLast /\ fpLast[entityId] # "missing"
       /\ entityId \notin DOMAIN fpHass.states
       /\ \A other \in fpWatched \ {entityId} : ~FpDiffers(other)

\* C8: an LruMap built with capacity n >= 1 holds at most n entries after any
\* sequence of get, set, has, delete and clear calls.
C8_SizeAtMostCapacity == lruMax >= 1 /\ Len(lruMap) <= lruMax

\* C8 witness: a set of a new key into a full map has evicted an entry
C8_Witness ==
  /\ lruOp.op = "set" /\ ~lruOp.had
  /\ Len(lruMap) = lruMax
  /\ \E key \in Range(touchLog) : ~MapHas(lruMap, key)

\* C9: after any sequence of get and set calls since construction or the last clear
\* (no delete among them: delete and clear remove keys whatever their recency), the
\* surviving keys are exactly the n most recently touched distinct keys (all touched
\* keys when fewer than n were touched), a key being touched by set or by a get that
\* finds it.
C9_SurvivorsAreLastTouched ==
  ~lruDeleted => MapKeys(lruMap) = Range(LastN(touchLog, lruMax))

\* C10: get(k) on a present key returns its value and marks k most recently used
\* (k becomes the last key to be evicted); get on an absent key reports a miss
\* and changes neither the contents nor the order.
C10_GetMarksMostRecent ==
  [][lruOp'.op = "get" =>
       IF MapHas(lruMap, lruOp'.k)
       THEN /\ lruOp'.ret = MapGet(lruMap, lruOp'.k)
            /\ lruMap'[Len(lruMap')].k = lruOp'.k
            /\ MapKeys(lruMap') = MapKeys(lruMap)
       ELSE /\ lruOp'.ret = Undefined
            /\ lruMap' = lruMap]_vars

\* --- properties of the card ---------------------------------------------------------

\* the runs suspended at an await
InFlight(c) == {rid \in DOMAIN c.runs : c.runs[rid].st = "await"}

\* the runs this step starts
StartedNow ==
  {rid \in DOMAIN card.runs : card.runs[rid].st = "idle" /\ card'.runs[rid].st = "await"}

\* the step is a store-change notification handled by updated(changed) in its hass branch
NotificationStep ==
  card'.ev.branch \in {"theme", "loading", "throttle", "apply", "unchanged"}

\* the notification keeps the chart theme
KeepsTheme == DesiredEchartsTheme(card'.hass) = card.echartsTheme

\* the step resumes a run and the run commits
CommitStep == card'.ev.out = "committed"

\* the step resumes a run and the run ends in the catch block
FailStep == card'.ev.out \in {"failed", "stalefailed"}

\* a history or statistics generator
TimeSeriesGenerator(node) == node.t \in {"history", "statistics"}

\* some node reachable through arrays and object values is a time-series generator
RECURSIVE HasTimeSeriesGenerator(_)
HasTimeSeriesGenerator(input) ==
  \/ TimeSeriesGenerator(input)
  \/ /\ input.t \in {"arr", "obj"}
     /\ \E i \in 1..Len(input.kids) : HasTimeSeriesGenerator(input.kids[i])

\* the cache windows carried by the time-series generators of a tree
RECURSIVE TimeSeriesCacheSeconds(_)
TimeSeriesCacheSeconds(input) ==
  CASE TimeSeriesGenerator(input) ->
         IF input.spec.cache_seconds.has /\ input.spec.cache_seconds.n > 0
         THEN {input.spec.cache_seconds.n} ELSE {}
    [] input.t \in {"arr", "obj"} ->
         UNION {TimeSeriesCacheSeconds(input.kids[i]) : i \in 1..Len(input.kids)}
    [] OTHER -> {}

\* the throttle window of a tree: the smallest cache_seconds over its history and
\* statistics generators, 30 s when none carries one, in ms
TimeSeriesWindowMs(option) ==
  LET all == TimeSeriesCacheSeconds(option)
  IN (IF all = {} THEN 30 ELSE CHOOSE m \in all : \A n \in all : m <= n) * 1000

\* C1: run ids come from a counter that never decreases and every started resolution
\* takes an id above all earlier ones; a resolution commits (option on the chart, watched
\* set replaced, fingerprints snapshotted) only if it is the latest started when its await
\* returns, so the chart never shows the result of a resolution older than one it showed
\* (an instance disposed by a throwing resize shows none)
C1_CommitOnlyByLatestRun ==
  [][ /\ card'.runId >= card.runId
      /\ card.applied <= card.runId
      /\ \A rid \in StartedNow : rid > card.runId /\ rid <= card'.runId
      /\ CommitStep =>
           /\ card'.ev.rid = card.runId
           /\ card.runs[card.runId].st = "await"
           /\ card'.applied = IF card'.attached THEN card.runId ELSE 0
           /\ card'.watchedEntities = TreeEntities(OptionOf(card.runs[card.runId].config))
      /\ (card'.applied # card.applied /\ card'.applied # 0) => CommitStep
      /\ (card'.lastFingerprints # card.lastFingerprints /\ card'.lastFingerprints # <<>>)
           => CommitStep
    ]_vars

\* a superseded resolution's late result was dropped while the chart shows the option
\* of a resolution started after it
C1_Witness == card.ev.out = "dropped" /\ card.applied > card.ev.rid

\* C2: a resolution whose run id is no longer current when it settles changes neither
\* the chart, nor the fingerprints, nor the error message, whether it settles with a value
\* or with a rejection
C2_SupersededRunIsSilent ==
  [][ \A rid \in InFlight(card) :
        (card'.runs[rid].st = "idle" /\ rid # card.runId) =>
          /\ card'.applied = card.applied
          /\ card'.lastFingerprints = card.lastFingerprints
          /\ card'.error = card.error
          /\ card'.chart = card.chart
    ]_vars

\* C4: with a time-series generator in the tree, a start of a resolution at time t
\* makes t + min(cache_seconds)*1000 the next-allowed time, and a store-change
\* notification handled before the next-allowed time starts no resolution.  Read for
\* the notifications that keep the chart theme (a theme switch recreates the chart and
\* resolves again by design) and for the starts since the last setConfig.
C4_NotificationInWindowStartsNothing ==
  [][ (/\ NotificationStep
       /\ KeepsTheme
       /\ HasTimeSeriesGenerator(OptionOf(card.config))
       /\ card.lastStart >= 0
       /\ CardTickMs(card.now) <
            CardTickMs(card.lastStart) + TimeSeriesWindowMs(OptionOf(card.config)))
        => card'.runId = card.runId
    ]_vars

\* C5: the step that starts a resolution of a tree with a time-series generator sets
\* the loading flag and the next-allowed time, before the first suspension point; and
\* while the latest resolution of such a tree is in flight under its configuration, no
\* notification that keeps the chart theme starts a resolution
C5_StartSetsLoadingAndNextAllowed ==
  [][ /\ (StartedNow # {} /\ HasTimeSeriesGenerator(OptionOf(card'.config)))
           => /\ card'.loading
              /\ card'.nextHistoryAllowedMs =
                   CardTickMs(card.now) + TimeSeriesWindowMs(OptionOf(card'.config))
      /\ (/\ NotificationStep
          /\ KeepsTheme
          /\ \E rid \in InFlight(card) :
               /\ rid = card.runId
               /\ ~card.runs[rid].over
               /\ HasTimeSeriesGenerator(OptionOf(card.runs[rid].config)))
           => card'.runId = card.runId
    ]_vars

\* C6: a failing resolution leaves the fingerprints alone, fingerprints change only
\* at a commit (or when setConfig clears them), and after a failure the next
\* notification that finds the container laid out and that the loading guard and the
\* throttle let through starts a resolution
C6_FailureIsRetriedByNextNotification ==
  [][ /\ FailStep => card'.lastFingerprints = card.lastFingerprints
      /\ (card'.lastFingerprints # card.lastFingerprints /\ card'.lastFingerprints # <<>>)
           => CommitStep
      /\ (/\ NotificationStep
          /\ card.error # Null
          /\ card.hass.defined
          /\ card.sized
          /\ ~LoadingGuard(card)
          /\ ~Throttled(card))
           => card'.runId > card.runId
    ]_vars
\* --- properties of LruMap.set --------------------------------------------------

\* C11: set(k, v) stores v under k and makes k the most recently used key; a new key
\* set into a full map evicts exactly one entry, the least recently used one (the
\* present key whose last touch, by set or by a get that found it, is oldest); a new
\* key set into a map with room evicts nothing; an existing key evicts nothing and
\* keeps the size; the other entries keep their values and their order
C11_SetStoresMarksAndEvictsOldest ==
  [][ lruOp'.op = "set" =>
        LET k == lruOp'.k
            v == lruOp'.v
            had == MapHas(lruMap, k)
            oldest == Head(SelectKeys(touchLog, LruKeys \ MapKeys(lruMap)))
        IN /\ MapHas(lruMap', k)
           /\ MapGet(lruMap', k) = v
           /\ lruMap'[Len(lruMap')] = [k |-> k, v |-> v]
           /\ (~had /\ Len(lruMap) = lruMax) =>
                /\ Len(lruMap') = lruMax
                /\ MapKeys(lruMap') = (MapKeys(lruMap) \ {oldest}) \cup {k}
                /\ MapDelete(lruMap', k) = MapDelete(lruMap, oldest)
           /\ (~had /\ Len(lruMap) < lruMax) =>
                /\ Len(lruMap') = Len(lruMap) + 1
                /\ MapDelete(lruMap', k) = lruMap
           /\ had =>
                /\ Len(lruMap') = Len(lruMap)
                /\ MapKeys(lruMap') = MapKeys(lruMap)
                /\ MapDelete(lruMap', k) = MapDelete(lruMap, k)
    ]_vars

\* --- properties of the history cache key ---------------------------------------

\* call c was answered from the cache
ServedFromCache(c) == fCalls[c].st = "returned" /\ ~fCalls[c].queried

\* C12: the cache key separates specs that compute different values: a call answered
\* from the cache returns the value its own spec computes from the transport response
\* the cached entry was built from
C12_CachedValueIsTheSpecsOwnValue ==
  \A c \in CallIds :
    ServedFromCache(c) =>
      fCalls[c].value = FetchResult(fCalls[c].spec, fCalls[c].value.data)

\* --- properties of a resolution whose generator has an invalid time range --------

\* run rid is suspended on a history generator whose time range is invalid
AtInvalidTimeRange(c, rid) == c.runs[rid].st = "await" /\ c.runs[rid].pend = "err"

\* C13: an invalid time range is confined to its generator: the run that meets it goes
\* on to the rest of the tree (or to its commit), sets no error and keeps the chart
C13_InvalidRangeIsConfinedToItsGenerator ==
  [][ \A rid \in DOMAIN card.runs :
        (AtInvalidTimeRange(card, rid) /\ ~AtInvalidTimeRange(card', rid)) =>
          /\ card'.ev.out \notin {"failed", "stalefailed"}
          /\ card'.error = card.error
          /\ card'.chart = card.chart
    ]_vars

\* --- properties of token resolution ----------------------------------------------

\* node is a generator site: its value is replaced by what the generator yields
GeneratorSite(node) == node.t \in {"entity", "data", "history", "statistics"}

\* out has the shape of input everywhere except at generator sites
RECURSIVE SameShape(_, _)
SameShape(input, out) ==
  CASE GeneratorSite(input) -> TRUE
    [] input.t = "arr" ->
         /\ out.t = "arr"
         /\ Len(out.kids) = Len(input.kids)
         /\ \A i \in 1..Len(input.kids) : SameShape(input.kids[i], out.kids[i])
    [] input.t = "obj" ->
         /\ out.t = "obj"
         /\ out.keys = input.keys
         /\ Len(out.kids) = Len(input.kids)
         /\ \A i \in 1..Len(input.kids) : SameShape(input.kids[i], out.kids[i])
    [] OTHER -> out = input

\* C14: the resolved tree is isomorphic to the input except at generator sites: arrays
\* keep length and element order, plain objects keep exactly their keys (so the
\* siblings of a generator-valued key stay), primitives come back unchanged
C14_ResolvedTreeKeepsShape == rsOut.done => SameShape(rsIn, rsOut.value)

\* an object with a history generator under one key and, under the next, an array
\* that starts with a falsy primitive has been resolved
C14_Witness ==
  /\ rsOut.done
  /\ rsIn.t = "obj"
  /\ Len(rsIn.kids) = 2
  /\ IsHistoryGenerator(rsIn.kids[1])
  /\ rsIn.kids[2].t = "arr"
  /\ Len(rsIn.kids[2].kids) = 2
  /\ Falsy(rsIn.kids[2].kids[1])
  /\ rsOut.value.kids[2].kids[1] = rsIn.kids[2].kids[1]

\* the entity ids of the statistics generators of a tree
RECURSIVE StatisticsEntities(_)
StatisticsEntities(input) ==
  CASE IsStatisticsGenerator(input) -> Range(input.spec.entities)
    [] input.t \in {"arr", "obj"} ->
         UNION {StatisticsEntities(input.kids[i]) : i \in 1..Len(input.kids)}
    [] OTHER -> {}

\* out is input with every statistics generator replaced by an empty array and the
\* rest of the tree resolved
RECURSIVE ResolvedWithoutStatistics(_, _)
ResolvedWithoutStatistics(input, out) ==
  CASE IsStatisticsGenerator(input) -> out = ArrNode(<<>>)
    [] IsHistoryGenerator(input) -> out = HistoryAnswer(input.spec)
    [] IsDataGenerator(input) \/ IsTokenObject(input) -> out.t \in {"value", "number"}
    [] input.t \in {"arr", "obj"} ->
         /\ out.t = input.t
         /\ out.keys = input.keys
         /\ Len(out.kids) = Len(input.kids)
         /\ \A i \in 1..Len(input.kids) : ResolvedWithoutStatistics(input.kids[i], out.kids[i])
    [] OTHER -> out = input

\* C15: without a statistics fetcher the call completes, every statistics generator
\* resolves to an empty array, the rest of the tree is resolved as usual, and the
\* entity ids of the statistics generators are in the watched set
C15_NoStatisticsFetcherYieldsEmptyArrays ==
  (rsOut.done /\ ~rsStats) =>
    /\ ResolvedWithoutStatistics(rsIn, rsOut.value)
    /\ StatisticsEntities(rsIn) \subseteq rsOut.watched

\* a tree with a history generator next to an object holding a statistics generator has
\* been resolved without a statistics fetcher
C15_Witness ==
  /\ rsOut.done
  /\ ~rsStats
  /\ rsIn.t = "obj"
  /\ Len(rsIn.kids) = 2
  /\ IsHistoryGenerator(rsIn.kids[1])
  /\ rsIn.kids[2].t = "obj"
  /\ \E i \in 1..Len(rsIn.kids[2].kids) : IsStatisticsGenerator(rsIn.kids[2].kids[i])
  /\ "e2" \in rsOut.watched

\* --- properties of the scans of the option tree ------------------------------------

\* C16: containsHistoryToken(tree) is true iff some node reachable through arrays and
\* object values is a history or a statistics generator; it is false for falsy inputs
\* and for trees of plain values, $data generators and $entity tokens only
C16_ScanFindsEveryTimeSeriesGenerator ==
  rsOut.scanned => (rsOut.needsHistory <=> HasTimeSeriesGenerator(rsIn))

\* C17: the throttle window is the smallest cache_seconds over the history and the
\* statistics generators of the tree, and the fallback (30 s) only when no time-series
\* generator carries a cache window
C17_WindowIsMinOverAllTimeSeriesGenerators ==
  rsOut.scanned =>
    /\ \A cs \in TimeSeriesCacheSeconds(rsIn) : rsOut.ttl <= cs * 1000
    /\ TimeSeriesCacheSeconds(rsIn) # {} =>
         rsOut.ttl \in {cs * 1000 : cs \in TimeSeriesCacheSeconds(rsIn)}
    /\ TimeSeriesCacheSeconds(rsIn) = {} => rsOut.ttl = 30 * 1000

\* --- properties of the card's value cache -------------------------------------------

\* a capacity the resolutions explored can outnumber
HistoryCacheCapacity == MaxRuns - 1

\* C18: the time-series cache of the card is capacity-bounded: however many
\* resolutions store a value under a new key (a new bucketed end in every cache
\* window), the cache never holds more entries than its capacity
C18_HistoryCacheIsBounded ==
  Cardinality(DOMAIN card.historyCache) <= HistoryCacheCapacity

\* --- properties of applyNumberTransforms -------------------------------------------

\* the contractual order of the stages
StageOrder == <<"map", "abs", "scale", "offset", "min", "max", "clamp", "round">>

\* one stage applied to x; an absent stage is a no-op
ApplyStage(name, x, token) ==
  CASE name = "map" -> MapStage(x, token.map)
    [] name = "abs" -> IF token.abs THEN AbsOf(x) ELSE x
    [] name = "scale" -> IF token.scale.has THEN TimesOf(x, token.scale.n) ELSE x
    [] name = "offset" -> IF token.offset.has THEN PlusOf(x, token.offset.n) ELSE x
    [] name = "min" -> IF token.min.has THEN MaxOf(token.min.n, x) ELSE x
    [] name = "max" -> IF token.max.has THEN MinOf(token.max.n, x) ELSE x
    [] name = "clamp" ->
         IF token.clamp.has THEN MinOf(token.clamp.m, MaxOf(token.clamp.n, x)) ELSE x
    [] name = "round" -> IF token.round.has THEN RoundOf(x, token.round.n) ELSE x

\* the stages applied one after the other
RECURSIVE ComposeStages(_, _, _)
ComposeStages(stages, x, token) ==
  IF stages = <<>> THEN x
  ELSE ComposeStages(Tail(stages), ApplyStage(Head(stages), x, token), token)

\* the stages of the token that are present
PresentStages(token) ==
  {name \in Range(StageOrder) :
     \/ name = "map" /\ token.map.type # "none"
     \/ name = "abs" /\ token.abs
     \/ name \in {"scale", "offset", "min", "max", "clamp", "round"} /\ token[name].has}

\* C19: for a finite input the result is the composition map, abs, scale, offset, min,
\* max, clamp, round of the stages present; scale with offset alone compute a*x+b;
\* without stages the value comes back unchanged; clamp acts after min and max, so the
\* value handed to round (the result, when there is no round) lies in the clamp range
C19_StagesApplyInFixedOrder ==
  (tfOut.done /\ IsFinite(tfIn.value)) =>
    LET x == tfIn.value
        token == tfIn.token
        present == PresentStages(token)
    IN /\ tfOut.value = ComposeStages(StageOrder, x, token)
       /\ present = {} => tfOut.value = x
       /\ present = {"scale", "offset"} =>
            tfOut.value = JsNum(token.scale.n * x.n + token.offset.n)
       /\ ("clamp" \in present /\ "round" \notin present /\ IsFinite(tfOut.value)) =>
            /\ token.clamp.n <= tfOut.value.n
            /\ tfOut.value.n <= token.clamp.m

\* scale 2 with offset 5 turned 4 into 13 (and not into 18)
C19_Witness ==
  /\ tfOut.done
  /\ tfIn.value = JsNum(4)
  /\ PresentStages(tfIn.token) = {"scale", "offset"}
  /\ tfOut.value = JsNum(13)

\* `token.$default ?? 0`
DefaultOrZero(token) == JsNum(IF token.default.has THEN token.default.n ELSE 0)

\* C20: when the log stage yields a non-finite number the call returns default ?? 0;
\* a finite input never yields a non-finite result
C20_NonFiniteLogFallsBackToDefault ==
  (tfOut.done /\ IsFinite(tfIn.value)) =>
    /\ (tfIn.token.map.type = "log" /\ ~IsFinite(MapStage(tfIn.value, tfIn.token.map)))
         => tfOut.value = DefaultOrZero(tfIn.token)
    /\ IsFinite(tfOut.value)

\* --- properties of downsample -------------------------------------------------------

\* the call the downsample bound is about: sorted points, L > M > 1
DownsampleApplies ==
  /\ dsOut.done
  /\ Len(dsIn.points) > dsIn.maxPoints
  /\ dsIn.maxPoints > 1

\* C21: for sorted points with L > M > 1 downsample returns at most M+1 points and the
\* last of them carries the timestamp of the last input point
C21_DownsampleBound ==
  DownsampleApplies =>
    /\ Len(dsOut.points) <= dsIn.maxPoints + 1
    /\ dsOut.points # <<>>
    /\ dsOut.points[Len(dsOut.points)].t = dsIn.points[Len(dsIn.points)].t

\* four points over a span of 4 were reduced to two buckets
C21_Witness ==
  /\ DownsampleApplies
  /\ Len(dsIn.points) = 4
  /\ dsIn.maxPoints = 2
  /\ dsIn.points[1].t = 0
  /\ dsIn.points[4].t = 4
  /\ Len(dsOut.points) = 2

\* --- properties of the $data branch ---------------------------------------------------

\* the ids the claim expects in the rows of a $data generator: every available entity,
\* and an unavailable one iff include_unavailable is true or exclude_unavailable is false
ExpectedDataRows(spec, hass) ==
  SelectSeq(spec.entities,
            LAMBDA id : Unavailable(hass, id) =>
                          \/ FlagOr(spec.include_unavailable, FALSE)
                          \/ ~FlagOr(spec.exclude_unavailable, TRUE))

\* C22: in bulk extraction an unavailable entity is excluded by default and included
\* iff include_unavailable is true or exclude_unavailable is false
C22_UnavailableIncludedIffEitherFlag ==
  (rsOut.done /\ IsDataGenerator(rsIn)) =>
    rsOut.value = ValueNode("rows:" \o JoinStr(ExpectedDataRows(rsIn.spec, rsHass), ","))

\* --- properties of the $map shorthand ----------------------------------------------

\* the object form a shorthand string stands for
ObjectForm(str) == IF str = "log" THEN MapLog(10, 1) ELSE MapSqrt

\* C23: a $map given as the string "log" or "sqrt" gives, for every finite input, the
\* result of the object form {type: "log"} or {type: "sqrt"}
C23_ShorthandMapLikeObjectForm ==
  (tfOut.done /\ IsFinite(tfIn.value) /\ tfIn.token.map.str \in {"log", "sqrt"}) =>
    tfOut.value =
      ApplyNumberTransforms(tfIn.value,
                            [tfIn.token EXCEPT !.map = ObjectForm(tfIn.token.map.str)])

\* --- properties of coerceHistoryPointNumber -----------------------------------------

\* the binary state strings and the number each stands for
BinaryOn == {"on", "true", "yes", "home", "open"}
BinaryOff == {"off", "false", "no", "not_home", "closed"}

\* the call is on a string under the number coercion (the default of history points)
NumberCoercionOfString ==
  /\ hpOut.done
  /\ hpIn.raw.k = "str"
  /\ hpIn.coerce \in {Null, "number"}

\* C24: coerceHistoryPointNumber maps the binary state strings to 1 and 0, whatever
\* their case, and applies the transforms to the mapped number
C24_BinaryStatesMapToNumbers ==
  (NumberCoercionOfString /\ LowerTrim(hpIn.raw.s) \in BinaryOn \cup BinaryOff) =>
    hpOut.value =
      ApplyNumberTransforms(JsNum(IF LowerTrim(hpIn.raw.s) \in BinaryOn THEN 1 ELSE 0),
                            SpecToken(hpIn.def, hpIn.transforms))

\* the raw string is no number
FailsNumericCoercion == NumberCoercionOfString /\ ~IsFinite(StringToNumber(hpIn.raw.s))

\* C30 as stated: a snapshot whose raw value fails numeric coercion contributes no point
C30_FailedCoercionIsDiscarded ==
  FailsNumericCoercion => hpOut.points = <<>>

\* C30: a snapshot whose raw value fails number coercion contributes a point with the
\* value default ?? 0; a snapshot is discarded exactly when its final value is not a
\* finite number, so every point pushed is finite
C30_FailedCoercionYieldsDefault ==
  /\ FailsNumericCoercion =>
       hpOut.points = <<JsNum(IF hpIn.def.has THEN hpIn.def.n ELSE 0)>>
  /\ hpOut.done =>
       /\ \A i \in 1..Len(hpOut.points) : IsFinite(hpOut.points[i])
       /\ hpOut.points = <<>> <=>
            ~IsFinite(ToNumber(ApplyTransformsWithSpec(hpIn.raw, hpIn.def,
                                                       OrElse(hpIn.coerce, "number"),
                                                       hpIn.transforms)))

\* "unavailable" without a default became the point 0
C30_Witness ==
  /\ FailsNumericCoercion
  /\ hpIn.raw = JsStr("unavailable")
  /\ ~hpIn.def.has
  /\ hpOut.points = <<JsNum(0)>>

\* --- properties of the TTL cache of the fetch engine ----------------------------------

\* call c passes the cache lookup in this step (its time range was valid)
LooksUp(c) ==
  /\ fCalls[c].st = "idle"
  /\ fCalls'[c].st \in {"returned", "awaiting"}

\* the entry under the key of call c is unexpired at the clock reading of the call
Unexpired(c) ==
  /\ fCalls'[c].key \in DOMAIN fCache
  /\ fCache[fCalls'[c].key].expiresAt > fCalls'[c].nowMs

\* the transport answers call c in this step
Answers(c) ==
  /\ fCalls[c].st = "awaiting"
  /\ fCalls'[c].st = "returned"

\* C25: a lookup returns the cached value iff an entry exists under the key with
\* expiresAt > now; otherwise (at now = expiresAt and later too) it is a miss and the
\* query is issued; the answer replaces the entry by a whole new one with
\* expiresAt = now + cache_seconds * 1000, other entries untouched
C25_ServedOnlyWhileUnexpired ==
  [][\A c \in CallIds :
       /\ (LooksUp(c) /\ Unexpired(c)) =>
            /\ fCalls'[c].st = "returned"
            /\ fCalls'[c].value = fCache[fCalls'[c].key].value
            /\ fQueries' = fQueries
            /\ fCache' = fCache
       /\ (LooksUp(c) /\ ~Unexpired(c)) =>
            /\ fCalls'[c].st = "awaiting"
            /\ fQueries' = fQueries + 1
            /\ fCache' = fCache
       /\ Answers(c) =>
            /\ DOMAIN fCache' = DOMAIN fCache \cup {fCalls[c].key}
            /\ fCache'[fCalls[c].key] =
                 [ts |-> fCalls[c].nowMs, value |-> fCalls'[c].value,
                  expiresAt |-> fCalls[c].nowMs + CallCacheSeconds(fCalls[c]) * 1000]
            /\ \A k \in DOMAIN fCache \ {fCalls[c].key} : fCache'[k] = fCache[k]]_vars

\* a call made exactly at the expiry of the entry under its key was a miss, and its
\* answer replaced the entry
C25_Witness ==
  \E i, j \in CallIds :
    /\ i # j
    /\ fCalls[i].st = "returned" /\ fCalls[j].st = "returned"
    /\ fCalls[i].key = fCalls[j].key
    /\ fCalls[i].queried /\ fCalls[j].queried
    /\ i \in fCalls[j].after
    /\ fCalls[j].nowMs = fCalls[i].nowMs + CallCacheSeconds(fCalls[i]) * 1000
    /\ CallCacheSeconds(fCalls[i]) > 0
    /\ fCache[fCalls[j].key].expiresAt
         = fCalls[j].nowMs + CallCacheSeconds(fCalls[j]) * 1000

\* --- properties of the time range of a history call ---------------------------------

\* the history calls made so far
HistoryCalls == {c \in CallIds : fCalls[c].st # "idle" /\ fCalls[c].spec.kind = "history"}

\* max(1, cache_seconds) * 1000 of a call
CallBucketMs(c) ==
  (IF CallCacheSeconds(fCalls[c]) > 1 THEN CallCacheSeconds(fCalls[c]) ELSE 1) * 1000

\* the end and the start a call derives
CallEndMs(c) == HistoryEndMs(fCalls[c].spec, fCalls[c].nowMs)
CallStartMs(c) == HistoryStartMs(fCalls[c].spec, CallEndMs(c))

\* C26: an implicit end is "now" rounded down to a multiple of
\* max(1, cache_seconds) * 1000, so end <= now < end + bucket; two calls with the same
\* spec whose "now" lies in the same bucket derive the same start, end and cache key;
\* an explicit end is used as given
C26_ImplicitEndIsBucketed ==
  /\ \A c \in HistoryCalls :
       /\ fCalls[c].spec.end.k = "null" =>
            /\ CallEndMs(c).fin
            /\ CallEndMs(c).n % CallBucketMs(c) = 0
            /\ CallEndMs(c).n <= fCalls[c].nowMs
            /\ fCalls[c].nowMs < CallEndMs(c).n + CallBucketMs(c)
       /\ fCalls[c].spec.end.k = "num" => CallEndMs(c) = Fin(fCalls[c].spec.end.n)
  /\ \A i, j \in HistoryCalls :
       (/\ fCalls[i].spec = fCalls[j].spec
        /\ fCalls[i].spec.end.k = "null"
        /\ fCalls[i].nowMs \div CallBucketMs(i) = fCalls[j].nowMs \div CallBucketMs(j)) =>
         /\ CallEndMs(i) = CallEndMs(j)
         /\ CallStartMs(i) = CallStartMs(j)
         /\ fCalls[i].key = fCalls[j].key

\* two calls at different clock readings of one bucket of one second
C26_Witness ==
  \E i, j \in HistoryCalls :
    /\ fCalls[i].spec = fCalls[j].spec
    /\ fCalls[i].spec.end.k = "null"
    /\ CallCacheSeconds(fCalls[i]) = 1
    /\ fCalls[i].nowMs = 1000
    /\ fCalls[j].nowMs = 1500
    /\ fCalls[i].key = fCalls[j].key
    /\ fCalls[i].key # ""

\* --- properties of a rejected transport call ------------------------------------------

\* the calls whose transport request was rejected
TransportRejected == {c \in CallIds : fCalls[c].st = "rejected" /\ fCalls[c].queried}

\* C29: a call whose transport request rejects issues no further request and writes no
\* cache entry: every call issues at most one request, every cache entry was written by
\* an answered call, and a call made after the rejection under the same key asks the
\* transport again
C29_RejectionIsNotCachedNorRetried ==
  /\ fQueries = Cardinality({c \in CallIds : fCalls[c].queried})
  /\ \A k \in DOMAIN fCache :
       \E c \in CallIds : fCalls[c].st = "returned" /\ fCalls[c].queried /\ fCalls[c].key = k
  /\ \A i \in TransportRejected, j \in CallIds :
       (i \in fCalls[j].after /\ fCalls[j].key = fCalls[i].key) => fCalls[j].queried

\* after a rejected request the same call was made again at the same clock reading and
\* answered by the transport
C29_Witness ==
  \E i \in TransportRejected, j \in CallIds :
    /\ i \in fCalls[j].after
    /\ fCalls[j].spec = fCalls[i].spec
    /\ fCalls[j].nowMs = fCalls[i].nowMs
    /\ fCalls[j].st = "returned"
    /\ fCalls[j].queried
    /\ fQueries = 2
    /\ fCalls[j].key \in DOMAIN fCache

\* --- properties of the fetcher calls of the resolver ----------------------------------

\* the history and statistics generators of a tree in depth-first document order
\* (the elements of an array or the values of an object from the i-th on)
RECURSIVE SitesFrom(_, _)
SitesFrom(input, i) ==
  CASE TimeSeriesGenerator(input) -> IF i = 1 THEN <<input>> ELSE <<>>
    [] input.t \in {"arr", "obj"} /\ i <= Len(input.kids) ->
         SitesFrom(input.kids[i], 1) \o SitesFrom(input, i + 1)
    [] OTHER -> <<>>

\* out carries the fetched value, whole, wherever input carries a generator that has
\* a fetcher
RECURSIVE SitesReplaced(_, _, _)
SitesReplaced(input, out, hasFetcher) ==
  CASE input.t = "history" -> out = HistoryAnswer(input.spec)
    [] input.t = "statistics" -> hasFetcher => out = StatisticsAnswer(input.spec)
    [] input.t \in {"arr", "obj"} ->
         /\ Len(out.kids) = Len(input.kids)
         /\ \A i \in 1..Len(input.kids) :
              SitesReplaced(input.kids[i], out.kids[i], hasFetcher)
    [] OTHER -> TRUE

\* C27: the fetchers are called once per generator site, in depth-first document
\* order, each with the inner spec of its site, the history fetcher at history sites
\* and the statistics fetcher (when one is supplied) at statistics sites; the entity
\* ids of every site are watched; the site is replaced by the fetched value; a tree
\* without such generators calls no fetcher
C27_OneFetcherCallPerSiteInOrder ==
  rsOut.done =>
    LET all == SitesFrom(rsIn, 1)
        sites == IF rsStats THEN all ELSE SelectSeq(all, LAMBDA n : n.t = "history")
    IN /\ Len(rsOut.calls) = Len(sites)
       /\ \A k \in 1..Len(sites) :
            /\ rsOut.calls[k].spec = sites[k].spec
            /\ rsOut.calls[k].fetcher = sites[k].t
       /\ \A k \in 1..Len(all) : Range(all[k].spec.entities) \subseteq rsOut.watched
       /\ SitesReplaced(rsIn, rsOut.value, rsStats)

\* three sites at two depths: history, then statistics, then history
C27_Witness ==
  /\ rsOut.done
  /\ rsStats
  /\ Len(rsOut.calls) = 3
  /\ rsOut.calls[1].fetcher = "history"
  /\ rsOut.calls[2].fetcher = "statistics"
  /\ rsOut.calls[3].fetcher = "history"

\* --- properties of the persisted watched set ----------------------------------------

\* C28: the watched-entity set and the fingerprint map change only at the commit of a
\* resolution, or by being cleared
C28_WatchedChangesOnlyAtCommit ==
  [][ /\ card'.watchedEntities # card.watchedEntities
           => (CommitStep \/ card'.watchedEntities = {})
      /\ card'.lastFingerprints # card.lastFingerprints
           => (CommitStep \/ card'.lastFingerprints = <<>>)
    ]_vars

\* --- properties of the history decode --------------------------------------------------

\* the entity id last seen at or before index i of the array, Null before the first
RECURSIVE LastSeenId(_, _)
LastSeenId(arr, i) ==
  IF i = 0 THEN Null
  ELSE IF arr[i].id # Null THEN arr[i].id ELSE LastSeenId(arr, i - 1)

\* the attributes last seen at or before index i of the array, NoNum before the first
RECURSIVE LastKnownAttrs(_, _)
LastKnownAttrs(arr, i) ==
  IF i = 0 THEN NoNum
  ELSE IF arr[i].attrs.has THEN arr[i].attrs ELSE LastKnownAttrs(arr, i - 1)

\* the array has been scanned
DecodeDone == dcPos > Len(dcIn.arr)

\* C31: once a per-entity array has been scanned, every timed snapshot that omits the
\* entity id has its point in the list of the entity id last seen earlier in the array,
\* and, when an attribute is requested, every timed snapshot that omits its attributes
\* has a point whose value is that of the last known attributes
C31_DecodeTracksIdAndAttributes ==
  DecodeDone =>
    \A i \in 1..Len(dcIn.arr) :
      LET s == dcIn.arr[i]
          id == LastSeenId(dcIn.arr, i)
          attrs == LastKnownAttrs(dcIn.arr, i)
      IN (s.ts.has /\ id \in DOMAIN dcOut) =>
           /\ (s.id = Null /\ dcIn.spec.attr = Null) =>
                <<s.ts.n * 1000, JsNum(1)>> \in Range(dcOut[id])
           /\ (dcIn.spec.attr # Null /\ ~s.attrs.has /\ attrs.has) =>
                <<s.ts.n * 1000, JsNum(attrs.n)>> \in Range(dcOut[id])

\* --- properties of the bulk extraction --------------------------------------------------

\* the rows are in the order of the sort: rows with a numeric value in non-decreasing
\* ("asc") or non-increasing ("desc") order, rows without one behind them
InSortOrder(rows, sort) ==
  \A i, j \in 1..Len(rows) :
    i < j =>
      /\ rows[j].num.has => rows[i].num.has
      /\ (rows[i].num.has /\ rows[j].num.has) =>
           IF sort = "asc" THEN rows[i].num.n <= rows[j].num.n
           ELSE rows[i].num.n >= rows[j].num.n

\* the same rows, in some order
SameRows(a, b) == Len(a) = Len(b) /\ Range(a) = Range(b)

\* the first min(n, number of rows) rows
FirstRows(rows, n) == SubSeq(rows, 1, Shorter(n, rows))

\* the sorted rows are the rows built, none dropped, in the order of the sort
SortKeepsAndOrders ==
  bdOut.done =>
    /\ SameRows(bdOut.sorted, bdOut.rows)
    /\ bdIn.spec.sort \in {"asc", "desc"} => InSortOrder(bdOut.sorted, bdIn.spec.sort)
    /\ bdIn.spec.sort = Null => bdOut.sorted = bdOut.rows
    /\ Len(bdOut.result) = Len(bdOut.sliced)

\* C32 as stated: sorted rows are in the order of their numeric values with the rows
\* lacking one kept at an extreme, and with a numeric limit the result is the first
\* min(limit, number of rows) rows, whatever the limit
C32_LimitTruncatesForEveryLimit ==
  /\ SortKeepsAndOrders
  /\ (bdOut.done /\ bdIn.spec.limit.has) =>
       bdOut.sliced = FirstRows(bdOut.sorted, bdIn.spec.limit.n)

\* C32: sorted rows are in the order of their numeric values with the rows lacking one
\* kept at an extreme; with a numeric limit above zero the result is the first
\* min(limit, number of rows) rows, and a limit of zero or below truncates nothing
C32_PositiveLimitTruncates ==
  /\ SortKeepsAndOrders
  /\ (bdOut.done /\ bdIn.spec.limit.has /\ bdIn.spec.limit.n > 0) =>
       bdOut.sliced = FirstRows(bdOut.sorted, bdIn.spec.limit.n)
  /\ (bdOut.done /\ ~(bdIn.spec.limit.has /\ bdIn.spec.limit.n > 0)) =>
       bdOut.sliced = bdOut.sorted

\* three rows, one without a numeric value, sorted ascending and cut to two
C32_Witness ==
  /\ bdOut.done
  /\ bdIn.spec.sort = "asc"
  /\ bdIn.spec.limit = Num(2)
  /\ Len(bdOut.rows) = 3
  /\ ~bdOut.rows[1].num.has
  /\ bdOut.sorted # bdOut.rows
  /\ ~bdOut.sorted[3].num.has
  /\ Len(bdOut.sliced) = 2

\* --- properties of the card: races of a resolution with the store and the host ----------

\* the run that ends in this step
EndingRun == card'.ev.rid

\* the step commits a run that read its values from a store and ends with a store
CommitOverStores ==
  CommitStep /\ card.runStates.defined /\ card'.hass.defined

\* C33: the fingerprints recorded at a commit are those of the store the resolution
\* read its values from, so that a watched entity that changed while the resolution
\* was in flight is still seen as changed by the change check after the commit
C33_CommitFingerprintsAreOfTheStoreRead ==
  [][ CommitOverStores =>
        /\ \A id \in card'.watchedEntities :
             FpGet(card'.lastFingerprints, id) = EntityFp(card.runStates, id)
        /\ (\E id \in card'.watchedEntities :
              EntityFp(card.runStates, id) # EntityFp(card'.hass, id))
             => CardShouldUpdate(card')
    ]_vars

\* C34: once no resolution is in flight the loading flag is false, whatever the
\* interleaving of resolutions, supersessions and disconnects, so that no store
\* notification is held back by a loading flag that nothing will clear
C34_LoadingOnlyWhileInFlight == card.loading => InFlight(card) # {}

\* C35: a resolution started under one configuration does not commit (option, watched
\* set, fingerprints) once setConfig has installed another one
C35_CommitOnlyUnderOwnConfig ==
  [][ CommitStep => card.runs[EndingRun].config = card.config ]_vars

\* --- staleness of the values the fetch engine serves from its cache ----------------------

\* call c is a history call with an implicit end and cache_seconds >= 1 that this step
\* serves from the cache
ServedImplicit(c) ==
  /\ LooksUp(c)
  /\ fCalls'[c].st = "returned"
  /\ fCalls'[c].spec.kind = "history"
  /\ fCalls'[c].spec.end.k = "null"
  /\ CallCacheSeconds(fCalls'[c]) >= 1

\* the entry served to call c was computed less than cache_seconds*1000 ms before the
\* call, in the bucket of cache_seconds*1000 ms the call is made in
FreshFor(c) ==
  LET entry == fCache[fCalls'[c].key]
      windowMs == CallCacheSeconds(fCalls'[c]) * 1000
  IN /\ entry.ts <= fCalls'[c].nowMs
     /\ fCalls'[c].nowMs - entry.ts < windowMs
     /\ entry.ts \div windowMs = fCalls'[c].nowMs \div windowMs

\* the entry served to call c was stored by a history call with an implicit end
StoredByImplicit(c) ==
  \E d \in CallIds :
    /\ fCalls[d].st = "returned" /\ fCalls[d].queried
    /\ fCalls[d].key = fCalls'[c].key
    /\ fCalls[d].nowMs = fCache[fCalls'[c].key].ts
    /\ fCalls[d].spec.end.k = "null"

\* C36 as stated: whatever a history call with an implicit end and cache_seconds >= 1
\* is served from the cache was computed less than cache_seconds*1000 ms before the
\* call and within the same time bucket
C36_ServedValueIsFresh ==
  [][\A c \in CallIds : ServedImplicit(c) => FreshFor(c)]_vars

\* C36: a value that a history call with an implicit end and cache_seconds >= 1 is
\* served from the cache, and that a call with an implicit end stored there, was
\* computed less than cache_seconds*1000 ms before the call and within the same bucket
C36_ServedImplicitValueIsFresh ==
  [][\A c \in CallIds : (ServedImplicit(c) /\ StoredByImplicit(c)) => FreshFor(c)]_vars

\* a call was served, half a second later and in the same bucket, the value another
\* call with an implicit end had fetched
C36_Witness ==
  \E c, d \in CallIds :
    /\ fCalls[c].st = "returned" /\ ~fCalls[c].queried
    /\ fCalls[c].spec.kind = "history" /\ fCalls[c].spec.end.k = "null"
    /\ CallCacheSeconds(fCalls[c]) = 1
    /\ fCalls[d].st = "returned" /\ fCalls[d].queried
    /\ fCalls[d].spec.end.k = "null"
    /\ fCalls[d].key = fCalls[c].key
    /\ fCalls[d].nowMs = 1000 /\ fCalls[c].nowMs = 1500
    /\ fCalls[c].value = fCalls[d].value

\* --- the invalid-time-range failure of fetchHistory -------------------------------------

\* call c is a fetchHistory call that fails in this step, before its transport call
FailsAtRange(c) ==
  /\ fCalls[c].st = "idle"
  /\ fCalls'[c].st = "rejected"
  /\ fCalls'[c].spec.kind = "history"

\* C37: a fetchHistory call that fails with the invalid-time-range error leaves the
\* cache and the watched set handed to it as they were and issues no request
C37_InvalidRangeFailsBeforeEffects ==
  [][\A c \in CallIds :
       FailsAtRange(c) =>
         /\ fCache' = fCache
         /\ fWatched' = fWatched
         /\ fQueries' = fQueries]_vars

\* a fetchHistory call with a non-finite end failed, and the watched set is still empty
C37_Witness ==
  \E c \in CallIds :
    /\ fCalls[c].st = "rejected" /\ ~fCalls[c].queried
    /\ fCalls[c].spec.kind = "history"
    /\ fCalls[c].spec.end = TimeNonFinite
    /\ fWatched = {} /\ fQueries = 0 /\ fCache = <<>>

\* --- the scans of the card against the fetcher calls of the resolver ---------------------

\* C38: a tree for one of whose nodes the resolver calls a fetcher is found by
\* containsHistoryToken, and the cache_seconds of that node is among those the throttle
\* window is the minimum of
C38_FetchingTreesAreScanned ==
  (rsOut.done /\ rsOut.scanned) =>
    \A i \in 1..Len(rsOut.calls) :
      /\ rsOut.needsHistory
      /\ (rsOut.calls[i].spec.cache_seconds.has /\ rsOut.calls[i].spec.cache_seconds.n > 0)
           => rsOut.ttl <= rsOut.calls[i].spec.cache_seconds.n * 1000


(***************************************************************************)
(* C39: the watched set of a bulk extraction                               *)
(***************************************************************************)

\* the entities of the generator that have no row in the result of the loop
FilteredOut == {id \in Range(bdIn.spec.entities) : \A i \in 1..Len(bdOut.rows) :
                                                     bdOut.rows[i].id # id}

\* the store after entity id appeared in it or changed
StoreAfterChange(hass, id) ==
  Hass([e \in DOMAIN hass.states \cup {id} |->
          IF e = id THEN [state |-> "5", last_updated |-> "t2"] ELSE hass.states[e]], FALSE)

\* C39: after a bulk extraction the watched set holds every entity the generator
\* names, the ones filtered out as missing, unavailable or zero included, so that the
\* fingerprints taken over the watched set report the later appearance or change of a
\* filtered-out entity as a change.
C39_FilteredEntitiesAreWatched ==
  bdOut.done =>
    /\ Range(bdIn.spec.entities) \subseteq bdOut.watched
    /\ \A id \in FilteredOut :
         /\ id \in bdOut.watched
         /\ ShouldUpdateForHassChange(StoreAfterChange(bdIn.hass, id), bdOut.watched,
                                      SnapshotFingerprints(bdIn.hass, bdOut.watched, <<>>))

\* a result that left out a missing, an unavailable and a zero entity
C39_Witness ==
  /\ bdOut.done
  /\ \E a, b, c \in FilteredOut :
       /\ a \notin DOMAIN bdIn.hass.states
       /\ b \in DOMAIN bdIn.hass.states /\ bdIn.hass.states[b].state = "unavailable"
       /\ c \in DOMAIN bdIn.hass.states /\ bdIn.hass.states[c].state = "0"

(***************************************************************************)
(* C40: an applied resolution does not re-trigger itself                   *)
(***************************************************************************)

\* the recorded fingerprints are those of the store the card holds: the store
\* differs from the one the snapshot was taken of in no watched entity
FingerprintsCurrent(c) ==
  \A entityId \in c.watchedEntities :
    FpGet(c.lastFingerprints, entityId) = EntityFp(c.hass, entityId)

\* after the commit shouldUpdateForHassChange returns false on the store and the watched
\* set the snapshot was taken of, and over a store the snapshot holds its fingerprints
SnapshotReportsNoChange ==
  /\ ~ShouldUpdateForHassChange(card'.hass, card'.watchedEntities, card'.lastFingerprints)
  /\ card'.hass.defined => FingerprintsCurrent(card')

\* the chart shows the option of the latest run and nothing was started since
ShowsLatestRun(c) == c.applied # 0 /\ c.applied = c.runId

\* C40 as stated: the fingerprints snapshotted by a commit report no change for the same
\* store and watched set, and once the chart shows the latest resolution the update for
\* a notification whose store leaves every watched entity as snapshotted starts no
\* resolution
C40_UnchangedNotificationStartsNothing ==
  [][ /\ CommitStep => SnapshotReportsNoChange
      /\ (/\ NotificationStep
          /\ ShowsLatestRun(card)
          /\ FingerprintsCurrent(card))
           => card'.runId = card.runId
    ]_vars

\* C40 amended: the same for the notifications that keep the chart theme; such a
\* notification also leaves the recorded fingerprints as they are
C40_ThemeKeepingUnchangedNotificationStartsNothing ==
  [][ /\ CommitStep => SnapshotReportsNoChange
      /\ (/\ NotificationStep
          /\ ShowsLatestRun(card)
          /\ FingerprintsCurrent(card)
          /\ KeepsTheme)
           => /\ card'.runId = card.runId
              /\ card'.lastFingerprints = card.lastFingerprints
    ]_vars

\* the chart shows the latest resolution and a notification that changed no watched
\* entity found the fingerprints unchanged and started nothing
C40_Witness ==
  /\ card.ev.branch = "unchanged"
  /\ ShowsLatestRun(card)
  /\ card.watchedEntities # {}
  /\ FingerprintsCurrent(card)

====
